---------------------------- MODULE Spec2Model ----------------------------
(***************************************************************************)
(* A model of the layout code of legislator-election-24:                   *)
(*   - the parliament seat view (generateParliamentSeats,                  *)
(*     loadCandidateData, drawParliamentSeats),                            *)
(*   - the grid renderer of the map component (createGridCanvas,           *)
(*     createMap, drawHexGridOnly, toggleDisplayMode, initMap).            *)
(*                                                                         *)
(* Numbers.  The code computes in IEEE doubles.  The radii, arc lengths,   *)
(* seat shares and angles of the parliament seat view are doubles in the   *)
(* model too, computed operation by operation with the rounding of the     *)
(* code.  So are the cell size, offsets and positions of the grid layouts  *)
(* and the variances of jenksNaturalBreaks, the vote counts that the seat  *)
(* view reads from its file and the radii of its circles.  The Cartesian   *)
(* coordinates r*cos(theta), r*sin(theta) of a seat are not part of a seat *)
(* of the model; nothing below reads them.  NaN, which the code produces   *)
(* for a zero-sized container, is modelled explicitly.                     *)
(***************************************************************************)
EXTENDS Integers, Sequences, FiniteSets, TLC

VARIABLES
    (* generateParliamentSeats, called on its own *)
    genArgs,        \* the arguments of the call
    genResult,      \* "none" before the call, then the returned seats
    (* the block fill of drawParliamentSeats, called on its own *)
    fillArgs,       \* the party table handed to the fill
    fillResult,     \* [done |-> FALSE] before the fill, then its result
    (* the parliament seat view *)
    phase,          \* "created", "mounted" or "unmounted"
    containerRef,   \* TRUE while containerRef.value is the container element
    containerSize,  \* <<width, height>> of container.getBoundingClientRect()
    listening,      \* TRUE while handleResize listens to the window's resize
    tickPending,    \* TRUE while the nextTick callback of onMounted is queued
    resizeTimer,    \* "null", "pending", "fired" or "cleared"
    resizes,        \* resize events so far
    awaitingLoad,   \* drawParliamentSeats calls suspended at await loadCandidateData()
    candidateData,  \* candidateData.value
    svg,            \* the svg handle: 0 for null, else the id of an element
    svgCreated,     \* SVG elements created so far (the last id given out)
    domSvgs,        \* the SVG elements that are children of the container
    lastDraw,       \* what the drawParliamentSeats call that resumed last did
    (* the grid layout of drawHexGridOnly, computed on its own *)
    layoutArgs,     \* [features, svgWidth, svgHeight]
    layoutResult,   \* [done |-> FALSE] before, then the layout and the cells
    (* the map component (first component of part_000) *)
    mapPhase,           \* "absent", "created", "mounted" or "unmounted"
    mapContainerSize,   \* <<width, height>> of mapContainer's bounding rect
    mapListening,       \* the window resize listener is registered
    mapTickPending,     \* the nextTick callback of onMounted is queued
    mapResizeTimer,     \* "pending" while a timeout of handleResize is set
    mapEvents,          \* resize events and toggleDisplayMode calls so far
    hexFile,            \* the features of the grid GeoJSON file that is served
    displayMode,        \* "map" or "grid"
    countyData,         \* Null or the loaded district boundaries
    hexData,            \* Null or the loaded grid GeoJSON
    mapSvg,             \* svg: 0 for null, else the element's index
    g,                  \* g: 0 for null, else the index of its svg element
    projection,         \* projection is non-null
    path,               \* path is non-null
    zoom,               \* zoom is non-null
    tooltip,            \* tooltip is non-null
    isMapReady,
    gridLayoutConfig,   \* Null or the published layout
    mapElements,        \* every svg element created so far, by index
    tooltipNodes,       \* .map-tooltip elements in the container
    mapTasks,           \* the calls waiting for a fetch, in start order
    retryTimers,        \* the calls waiting for a retry timer, oldest first
    lastHexGridOnly,    \* the drawHexGridOnly call of the last step, if any
    (* one function of the sources, called on its own *)
    callArgs,       \* [fn |-> "none"], or the function's name and arguments
    callResult,     \* [done |-> FALSE] before the call, then its result
    (* the data store and the data requests of the modules *)
    requested,              \* the URLs of the data requests made so far
    electedLegislators,     \* electedLegislators.value
    isLoadingLegislators,   \* isLoadingLegislators.value
    legislatorsError,       \* legislatorsError.value: Null or the error
    fetches,                \* the d3.csv requests of the store in flight
    loadCalls,              \* the loadElectedLegislators calls made so far
    lastLoad,               \* what the last step of the store did
    everLoaded,             \* a load has completed successfully
    (* handleResize of one view and the timeouts of its window *)
    resizeView,         \* the view whose handleResize listens
    resizePhase,        \* "created", "mounted" or "unmounted"
    resizeListening,    \* handleResize is registered as resize listener
    resizeTimerId,      \* resizeTimer of handleResize: 0 for null, else an id
    timeouts,           \* the timeouts set and neither run nor cleared yet
    timeoutsSet,        \* setTimeout calls so far (the last id returned)
    clock,              \* the time, in ms
    lastResizeAt,       \* the time of the last resize event, -1 before any
    bursts,             \* the resize events that found no timeout pending
    redraws,            \* the runs of the timeout's callback so far
    lastRedraw,         \* the last run of the timeout's callback
    (* one chart view: its lifecycle, its SVG and its tooltips *)
    chartView,          \* the view: "none" or one of ChartViews
    chartPhase,         \* "created", "mounted" or "unmounted"
    chartContainerRef,  \* containerRef.value is the container element
    chartListening,     \* handleResize listens to the window's resize
    chartTickPending,   \* the nextTick callback of onMounted is queued
    chartResizeTimer,   \* "null", "pending", "fired" or "cleared"
    chartResizes,       \* resize events so far
    chartAwaiting,      \* draw calls suspended at await loadCandidateData()
    chartSvg,           \* svg: 0 for null, else the id of an element
    chartCreated,       \* elements created so far (the last id given out)
    chartSvgs,          \* the SVG elements that are children of the container
    seatTooltips,       \* the .seat-tooltip elements that are children of body
    lastChartDraw,      \* what the draw call that resumed last did
    (* one initMap run from the end of its awaits: the retries of tryCreate *)
    retryBranch,        \* "none", or displayMode at the call: "map" or "grid"
    retryPhase,         \* "start", "waiting" for the timeout, or "stopped"
    retryContainer,     \* mapContainer.value: "null", "zero" (size) or "sized"
    retryLayouts,       \* changes of the container's size so far
    attempts,           \* attempts of initMap
    retryElapsed,       \* ms since the pending timeout was set
    canvases,           \* createMap calls that returned true
    layersDrawn,        \* times the layers were drawn
    lastTry             \* what the last run of tryCreate did

genVars == <<genArgs, genResult>>
fillVars == <<fillArgs, fillResult>>
viewVars == <<phase, containerRef, containerSize, listening, tickPending,
              resizeTimer, resizes, awaitingLoad, candidateData, svg,
              svgCreated, domSvgs, lastDraw>>
layoutVars == <<layoutArgs, layoutResult>>
mapVars == <<mapPhase, mapContainerSize, mapListening, mapTickPending,
             mapResizeTimer, mapEvents, hexFile, displayMode, countyData,
             hexData, mapSvg, g, projection, path, zoom, tooltip, isMapReady,
             gridLayoutConfig, mapElements, tooltipNodes, mapTasks,
             retryTimers, lastHexGridOnly>>
callVars == <<callArgs, callResult>>
storeVars == <<requested, electedLegislators, isLoadingLegislators,
               legislatorsError, fetches, loadCalls, lastLoad, everLoaded>>
debounceVars == <<resizeView, resizePhase, resizeListening, resizeTimerId, timeouts,
                  timeoutsSet, clock, lastResizeAt, bursts, redraws,
                  lastRedraw>>
chartVars == <<chartView, chartPhase, chartContainerRef, chartListening,
               chartTickPending, chartResizeTimer, chartResizes,
               chartAwaiting, chartSvg, chartCreated, chartSvgs,
               seatTooltips, lastChartDraw>>
retryVars == <<retryBranch, retryPhase, retryContainer, retryLayouts,
               attempts, retryElapsed, canvases, layersDrawn, lastTry>>
vars == <<genVars, fillVars, viewVars, layoutVars, mapVars, callVars,
         storeVars, debounceVars, chartVars, retryVars>>

(***************************************************************************)
(* Bounds of the model.                                                    *)
(***************************************************************************)
MaxTotalSeats == 7
MaxRowCount == 10
MaxRadius == 3
MaxPartyCount == 4
MaxContainerSide == 1
MaxResizes == 2
MaxGrid == 0
MaxFeatures == 2
MaxViewportSteps == 2
MaxMapEvents == 2
MaxPending == 2

(***************************************************************************)
(* The state of a part of the program that a specification does not run.   *)
(***************************************************************************)
NoDraw == [done |-> FALSE, error |-> FALSE, loaded |-> FALSE,
           candidates |-> <<>>, generated |-> 0, dppAssigned |-> 0,
           kmtAssigned |-> 0, shapes |-> 0, overlapped |-> FALSE]

GenIdle ==
    genArgs = [totalSeats |-> 0] /\ genResult = [called |-> FALSE, seats |-> <<>>]

FillIdle == fillArgs = <<>> /\ fillResult = [done |-> FALSE]

ViewCreated ==
    /\ phase = "created"
    /\ containerRef = FALSE
    /\ listening = FALSE
    /\ tickPending = FALSE
    /\ resizeTimer = "null"
    /\ resizes = 0
    /\ awaitingLoad = 0
    /\ candidateData = <<>>
    /\ svg = 0
    /\ svgCreated = 0
    /\ domSvgs = <<>>
    /\ lastDraw = NoDraw

ViewIdle == ViewCreated /\ containerSize = <<0, 0>>

LayoutIdle ==
    layoutArgs = [features |-> <<>>] /\ layoutResult = [done |-> FALSE]

CallIdle == callArgs = [fn |-> "none"] /\ callResult = [done |-> FALSE]

\* the store as its setup function leaves it (part_002, lines 34-36), and
\* no data request made
StoreIdle ==
    /\ requested = {}
    /\ electedLegislators = <<>>
    /\ isLoadingLegislators = FALSE
    /\ legislatorsError = [null |-> TRUE]
    /\ fetches = 0
    /\ loadCalls = 0
    /\ lastLoad = [kind |-> "none"]
    /\ everLoaded = FALSE

\* let resizeTimer = null (part_000 lines 1415 and 1956, BarView2.vue line
\* 412), no listener registered and no timeout set
DebounceFresh ==
    /\ resizePhase = "created"
    /\ resizeListening = FALSE
    /\ resizeTimerId = 0
    /\ timeouts = {}
    /\ timeoutsSet = 0
    /\ clock = 0
    /\ lastResizeAt = -1
    /\ bursts = 0
    /\ redraws = 0
    /\ lastRedraw = [called |-> FALSE]

DebounceIdle == resizeView = "none" /\ DebounceFresh

\* let attempts = 0 (part_000 line 1337); no timeout set, nothing created
RetryFresh ==
    /\ retryPhase = "start"
    /\ retryLayouts = 0
    /\ attempts = 0
    /\ retryElapsed = 0
    /\ canvases = 0
    /\ layersDrawn = 0
    /\ lastTry = [called |-> FALSE]

RetryIdle == retryBranch = "none" /\ retryContainer = "null" /\ RetryFresh

\* a chart view as its setup() leaves it: containerRef = ref(null), svg =
\* null, resizeTimer = null (part_001 lines 17-18 and 291)
ChartFresh ==
    /\ chartPhase = "created"
    /\ chartContainerRef = FALSE
    /\ chartListening = FALSE
    /\ chartTickPending = FALSE
    /\ chartResizeTimer = "null"
    /\ chartResizes = 0
    /\ chartAwaiting = 0
    /\ chartSvg = 0
    /\ chartCreated = 0
    /\ chartSvgs = {}
    /\ seatTooltips = {}
    /\ lastChartDraw = [kind |-> "none"]

ChartIdle == chartView = "none" /\ ChartFresh

\* the variables of the map component as its setup() leaves them (lines
\* 144-245)
MapFresh ==
    /\ mapListening = FALSE
    /\ mapTickPending = FALSE
    /\ mapResizeTimer = "none"
    /\ mapEvents = 0
    /\ displayMode = "map"
    /\ countyData = [null |-> TRUE]
    /\ hexData = [null |-> TRUE]
    /\ mapSvg = 0
    /\ g = 0
    /\ projection = FALSE
    /\ path = FALSE
    /\ zoom = FALSE
    /\ tooltip = FALSE
    /\ isMapReady = FALSE
    /\ gridLayoutConfig = [null |-> TRUE]
    /\ mapElements = <<>>
    /\ tooltipNodes = 0
    /\ mapTasks = <<>>
    /\ retryTimers = <<>>
    /\ lastHexGridOnly = [called |-> FALSE]

MapCreated == mapPhase = "created" /\ MapFresh

\* no map component
MapIdle ==
    /\ mapPhase = "absent"
    /\ MapFresh
    /\ mapContainerSize = <<0, 0>>
    /\ hexFile = <<>>

(***************************************************************************)
(* Rational arithmetic and JavaScript numbers.                             *)
(***************************************************************************)

\* a JavaScript number that is an integer or NaN
Num(v) == [nan |-> FALSE, v |-> v]
NaN == [nan |-> TRUE, v |-> 0]
NumAdd(a, b) == IF a.nan \/ b.nan THEN NaN ELSE Num(a.v + b.v)
NumSub(a, b) == IF a.nan \/ b.nan THEN NaN ELSE Num(a.v - b.v)

RECURSIVE SumSeq(_)
SumSeq(s) == IF s = <<>> THEN 0 ELSE s[1] + SumSeq(Tail(s))

\* the function f on 1..n as an array (a sequence) of n elements
Array(f, n) == SubSeq(f, 1, n)

(***************************************************************************)
(* JavaScript numbers that are not integers: IEEE 754 binary64, rounded    *)
(* to nearest, ties to even, as the operators *, /, + and - of the code    *)
(* compute them.                                                           *)
(*                                                                         *)
(* A natural number of any size is a sequence of limbs in base 2^14, the   *)
(* least significant first and the last one not zero (<<>> is 0).  A       *)
(* double is a record [k, s, m, e]: k is "nan", "inf", "zero" or "num", s  *)
(* is 1 for a negative number, and a "num" is m * 2^e with 2^52 <= m <     *)
(* 2^53.  The values of the code stay far inside the range of the normal   *)
(* doubles, so that subnormal numbers and overflow do not occur; the sign  *)
(* of a zero is not kept, no operation of the code tells -0 from 0.        *)
(***************************************************************************)
Base == 2 ^ 14

\* limb i of a, 0 beyond its last limb
Limb(a, i) == IF 1 <= i /\ i <= Len(a) THEN a[i] ELSE 0

\* the largest element of a set of integers that is not empty
Largest(S) == CHOOSE x \in S : \A y \in S : y <= x

\* a without its leading zero limbs
BigNorm(a) ==
    IF a = <<>> THEN <<>>
    ELSE SubSeq(a, 1, Largest({0} \cup { i \in 1..Len(a) : a[i] # 0 }))

\* an integer 0 <= n < 2^31
BigOfInt(n) == BigNorm(<<n % Base, (n \div Base) % Base, n \div (Base * Base)>>)

\* a number below 2^31
BigToInt(a) == Limb(a, 1) + Base * Limb(a, 2) + Base * Base * Limb(a, 3)

\* the limbs of a + b from limb i on; s is the sum of the two limbs i and
\* of the carry
RECURSIVE BigAddFrom(_, _, _, _)
BigAddFrom(a, b, i, s) ==
    IF i > Len(a) /\ i > Len(b)
    THEN IF s = 0 THEN <<>> ELSE <<s>>
    ELSE <<s % Base>>
         \o BigAddFrom(a, b, i + 1, Limb(a, i + 1) + Limb(b, i + 1) + s \div Base)

\* a + b
BigAdd(a, b) ==
    IF a = <<>> THEN b
    ELSE IF b = <<>> THEN a
    ELSE BigAddFrom(a, b, 1, a[1] + b[1])

\* the limbs of a - b from limb i on; d is the difference of the two limbs
\* i, less the borrow
RECURSIVE BigSubFrom(_, _, _, _)
BigSubFrom(a, b, i, d) ==
    IF i > Len(a) THEN <<>>
    ELSE <<d % Base>>
         \o BigSubFrom(a, b, i + 1,
                       Limb(a, i + 1) - Limb(b, i + 1) - (IF d < 0 THEN 1 ELSE 0))

\* a - b for a >= b
BigSub(a, b) ==
    IF a = <<>> \/ b = <<>> THEN a
    ELSE BigNorm(BigSubFrom(a, b, 1, a[1] - b[1]))

\* the sign of a - b for two numbers of i limbs
RECURSIVE BigCmpFrom(_, _, _)
BigCmpFrom(a, b, i) ==
    IF i = 0 THEN 0
    ELSE IF a[i] < b[i] THEN -1
    ELSE IF a[i] > b[i] THEN 1
    ELSE BigCmpFrom(a, b, i - 1)

\* the sign of a - b
BigCmp(a, b) ==
    IF Len(a) < Len(b) THEN -1
    ELSE IF Len(a) > Len(b) THEN 1
    ELSE BigCmpFrom(a, b, Len(a))

\* a * Base^n
BigShiftLimbs(a, n) ==
    IF a = <<>> \/ n = 0 THEN a ELSE [i \in 1..n |-> 0] \o a

\* the limbs of a * k from limb i on; p is the product of limb i and k,
\* plus the carry
RECURSIVE BigMulSmallFrom(_, _, _, _)
BigMulSmallFrom(a, k, i, p) ==
    IF i > Len(a)
    THEN IF p = 0 THEN <<>> ELSE <<p>>
    ELSE <<p % Base>>
         \o BigMulSmallFrom(a, k, i + 1, Limb(a, i + 1) * k + p \div Base)

\* a * k for 0 <= k <= Base
BigMulSmall(a, k) ==
    IF a = <<>> \/ k = 0 THEN <<>>
    ELSE IF k = 1 THEN a
    ELSE BigMulSmallFrom(a, k, 1, a[1] * k)

\* the sum of the products of a limb of a and a limb of b that fall on limb
\* k of a * b, for an a of at most four limbs
BigMulColumn(a, b, k) ==
    Limb(a, 1) * Limb(b, k) + Limb(a, 2) * Limb(b, k - 1)
    + Limb(a, 3) * Limb(b, k - 2) + Limb(a, 4) * Limb(b, k - 3)

\* the number whose limbs, carries included, are the columns
BigOfColumns(col) ==
    BigNorm(BigAdd(BigAdd([k \in 1..Len(col) |-> col[k] % Base],
                          <<0>> \o [k \in 1..Len(col) |-> (col[k] \div Base) % Base]),
                   <<0, 0>> \o [k \in 1..Len(col) |-> col[k] \div (Base * Base)]))

\* a * b for an a of at most four limbs
BigMul(a, b) ==
    IF a = <<>> \/ b = <<>> THEN <<>>
    ELSE BigOfColumns(Array([k \in 1..(Len(a) + Len(b)) |-> BigMulColumn(a, b, k)],
                            Len(a) + Len(b)))

\* a * 2^n
BigShl(a, n) == BigShiftLimbs(BigMulSmall(a, 2 ^ (n % 14)), n \div 14)

\* floor(a / (Base^w * 2^r)) for r < 14
BigShrBy(a, w, r) ==
    IF Len(a) <= w THEN <<>>
    ELSE BigNorm([i \in 1..(Len(a) - w) |->
                     (a[i + w] \div 2 ^ r)
                     + (Limb(a, i + w + 1) % 2 ^ r) * 2 ^ (14 - r)])

\* floor(a / 2^n)
BigShr(a, n) == BigShrBy(a, n \div 14, n % 14)

\* the number of binary digits of a
BigBitLen(a) ==
    IF a = <<>> THEN 0
    ELSE 14 * (Len(a) - 1) + Cardinality({ n \in 0..13 : 2 ^ n <= a[Len(a)] })

\* the largest digit q <= qhat with b * q <= cur
RECURSIVE BigDigit(_, _, _)
BigDigit(cur, b, qhat) ==
    IF BigCmp(BigMulSmall(b, qhat), cur) > 0 THEN BigDigit(cur, b, qhat - 1)
    ELSE qhat

\* the first guess of a digit of the long division: the two leading limbs
\* of cur by the leading limb of b, at most Base - 1
BigDigitGuess(high, low, lead) ==
    IF (high * Base + low) \div lead > Base - 1 THEN Base - 1
    ELSE (high * Base + low) \div lead

\* the digit and the remainder left of cur
BigDivRemainder(cur, b, digit) ==
    [q |-> digit, r |-> BigSub(cur, BigMulSmall(b, digit))]

\* the digit of cur / b and its remainder, for cur < b * Base
BigDivDigit(cur, b) ==
    BigDivRemainder(cur, b,
        BigDigit(cur, b, BigDigitGuess(Limb(cur, Len(b) + 1), Limb(cur, Len(b)),
                                       b[Len(b)])))

\* one step of the long division by b, a number whose last limb is at
\* least Base / 2: the limb brought down to the remainder rem < b gives
\* the digit q and the remainder r
BigDivStep(limb, rem, b) == BigDivDigit(BigNorm(<<limb>> \o rem), b)

\* the long division of the limbs i, i - 1, ..., 1 of num by den, after the
\* step that gave the digit and the remainder of the record step; digits
\* holds the digits found, the least significant first
RECURSIVE BigDivFrom(_, _, _, _, _)
BigDivFrom(num, den, i, step, digits) ==
    IF step.q < 0 THEN [q |-> <<>>, exact |-> FALSE]
    ELSE IF i = 0
    THEN [q |-> BigNorm(<<step.q>> \o digits), exact |-> step.r = <<>>]
    ELSE BigDivFrom(num, den, i - 1, BigDivStep(num[i], step.r, den),
                    <<step.q>> \o digits)

\* [q |-> floor(a * 2^56 / b), exact |-> b divides a * 2^56] for two
\* mantissas a and b: the long division of the eight limbs of a * 2^59 by
\* the four limbs of b * 2^3, whose first three limbs are below the divisor
BigDivScaled(num, den) ==
    BigDivFrom(num, den, 4, BigDivStep(num[5], BigNorm(SubSeq(num, 6, 8)), den),
               <<>>)

BigDiv(a, b) == BigDivScaled(BigShl(a, 59), BigShl(b, 3))

F64(k, s, m, e) == [k |-> k, s |-> s, m |-> m, e |-> e]
F64NaN == F64("nan", 0, <<>>, 0)
F64Zero == F64("zero", 0, <<>>, 0)
F64Inf(s) == F64("inf", s, <<>>, 0)

\* a mantissa m of 53 or, after a carry out of the rounding, 54 digits
F64Normal(s, m, e) ==
    IF BigBitLen(m) > 53 THEN F64("num", s, BigShr(m, 1), e + 1)
    ELSE F64("num", s, m, e)

\* the quotient q of n by 2^sh rounded by c, the sign of what is left of n
\* less a half: up above a half, and at a half if something was cut off
\* before (sticky) or q is odd
F64RoundHalf(s, q, e, sticky, c) ==
    F64Normal(s, IF c > 0 \/ (c = 0 /\ (sticky \/ q[1] % 2 = 1))
                 THEN BigAdd(q, <<1>>) ELSE q, e)

F64RoundQuotient(s, n, e, sticky, sh, q) ==
    F64RoundHalf(s, q, e + sh, sticky,
                 BigCmp(BigSub(n, BigShl(q, sh)), BigShl(<<1>>, sh - 1)))

\* n has 53 + sh binary digits
F64RoundBy(s, n, e, sticky, sh) ==
    IF sh <= 0 THEN F64("num", s, BigShl(n, -sh), e + sh)
    ELSE F64RoundQuotient(s, n, e, sticky, sh, BigShr(n, sh))

\* the double nearest to (-1)^s * (n + x) * 2^e for a natural n > 0, with
\* x = 0 if ~sticky and 0 < x < 1 if sticky; halves go to the even mantissa
F64Round(s, n, e, sticky) == F64RoundBy(s, n, e, sticky, BigBitLen(n) - 53)

\* the double of an integer
F64OfInt(n) ==
    IF n = 0 THEN F64Zero
    ELSE F64Round(IF n < 0 THEN 1 ELSE 0, BigOfInt(IF n < 0 THEN -n ELSE n), 0, FALSE)

F64Neg(a) == IF a.k \in {"num", "inf"} THEN [a EXCEPT !.s = 1 - @] ELSE a

\* Math.abs
F64Abs(a) == [a EXCEPT !.s = 0]

\* the sign of |a| - |b| for two "num"
F64CmpMagnitude(a, b) ==
    IF a.e < b.e THEN -1
    ELSE IF a.e > b.e THEN 1
    ELSE BigCmp(a.m, b.m)

\* (-1)^sa * x * 2^e + (-1)^sb * y * 2^e, c being the sign of x - y
F64AddSigned(sa, sb, x, y, e, c) ==
    IF sa # sb /\ c = 0 THEN F64Zero
    ELSE F64Round(IF sa = sb \/ c > 0 THEN sa ELSE sb,
                  IF sa = sb THEN BigAdd(x, y)
                  ELSE IF c > 0 THEN BigSub(x, y) ELSE BigSub(y, x),
                  e, FALSE)

F64AddAligned(sa, sb, x, y, e) == F64AddSigned(sa, sb, x, y, e, BigCmp(x, y))

\* the sum of two "num", e being the smaller of their exponents
F64AddAt(a, b, e) ==
    F64AddAligned(a.s, b.s, BigShl(a.m, a.e - e), BigShl(b.m, b.e - e), e)

\* a + b
F64Add(a, b) ==
    IF a.k = "nan" \/ b.k = "nan" THEN F64NaN
    ELSE IF a.k = "inf"
    THEN IF b.k = "inf" /\ b.s # a.s THEN F64NaN ELSE a
    ELSE IF b.k = "inf" THEN b
    ELSE IF a.k = "zero" THEN b
    ELSE IF b.k = "zero" THEN a
    ELSE F64AddAt(a, b, IF a.e < b.e THEN a.e ELSE b.e)

\* a - b
F64Sub(a, b) == F64Add(a, F64Neg(b))

\* a * b
F64Mul(a, b) ==
    IF a.k = "nan" \/ b.k = "nan" THEN F64NaN
    ELSE IF a.k = "inf" \/ b.k = "inf"
    THEN IF a.k = "zero" \/ b.k = "zero" THEN F64NaN ELSE F64Inf((a.s + b.s) % 2)
    ELSE IF a.k = "zero" \/ b.k = "zero" THEN F64Zero
    ELSE F64Round((a.s + b.s) % 2, BigMul(a.m, b.m), a.e + b.e, FALSE)

\* the quotient of two "num" from the quotient d of their mantissas
F64DivRounded(s, e, d) == F64Round(s, d.q, e, ~d.exact)

\* a / b
F64Div(a, b) ==
    IF a.k = "nan" \/ b.k = "nan" THEN F64NaN
    ELSE IF a.k = "inf"
    THEN IF b.k = "inf" THEN F64NaN ELSE F64Inf((a.s + b.s) % 2)
    ELSE IF b.k = "inf" THEN F64Zero
    ELSE IF b.k = "zero"
    THEN IF a.k = "zero" THEN F64NaN ELSE F64Inf((a.s + b.s) % 2)
    ELSE IF a.k = "zero" THEN F64Zero
    ELSE F64DivRounded((a.s + b.s) % 2, a.e - b.e - 56, BigDiv(a.m, b.m))

\* -1, 0 or 1 for a negative number, a zero and a positive number
F64Sign(a) == IF a.k = "zero" THEN 0 ELSE IF a.s = 1 THEN -1 ELSE 1

\* the sign of a - b for two numbers of the same sign sa that are not zero
F64CmpSameSign(a, b, sa) ==
    IF a.k = "inf" THEN (IF b.k = "inf" THEN 0 ELSE sa)
    ELSE IF b.k = "inf" THEN -sa
    ELSE sa * F64CmpMagnitude(a, b)

F64CmpSigns(a, b, sa, sb) ==
    IF sa # sb THEN (IF sa < sb THEN -1 ELSE 1)
    ELSE IF sa = 0 THEN 0
    ELSE F64CmpSameSign(a, b, sa)

\* the sign of a - b for two numbers that are not NaN: what a comparator
\* (a, b) => a - b hands to sort
F64Cmp(a, b) == F64CmpSigns(a, b, F64Sign(a), F64Sign(b))

F64Lt(a, b) == F64Cmp(a, b) < 0
F64Le(a, b) == F64Cmp(a, b) <= 0
F64Eq(a, b) == F64Cmp(a, b) = 0

\* Math.min of two doubles
F64Min(a, b) ==
    IF a.k = "nan" \/ b.k = "nan" THEN F64NaN
    ELSE IF F64Le(a, b) THEN a ELSE b

\* the integer v, or v + 1 when what is left is a half or more (c >= 0),
\* with its sign: for a negative number a half goes up, to -v
MathRoundHalf(s, v, c) ==
    IF s = 0 THEN Num(IF c >= 0 THEN v + 1 ELSE v)
    ELSE Num(IF c > 0 THEN -(v + 1) ELSE -v)

\* a number m * 2^-sh with sh > 0 whose whole part is whole
MathRoundWhole(s, m, sh, whole) ==
    MathRoundHalf(s, BigToInt(whole),
                  BigCmp(BigSub(m, BigShl(whole, sh)), BigShl(<<1>>, sh - 1)))

\* Math.round of a number that is NaN or finite: the nearest integer, a half
\* goes up
MathRound(a) ==
    CASE a.k = "nan" -> NaN
      [] a.k = "zero" -> Num(0)
      [] a.k = "num" ->
            IF a.e >= 0 THEN MathRoundHalf(a.s, BigToInt(BigShl(a.m, a.e)), -1)
            ELSE MathRoundWhole(a.s, a.m, -a.e, BigShr(a.m, -a.e))

\* the double (high * 10^9 + low) * 2^e, for 2^52 <= high * 10^9 + low < 2^53
F64Exact(high, low, e) ==
    F64("num", 0, BigAdd(BigMul(BigOfInt(high), BigOfInt(10 ^ 9)), BigOfInt(low)), e)

\* Math.PI = 7074237752028440 * 2^-51
MathPI == F64Exact(7074237, 752028440, -51)

\* floor(sqrt(n)) for 2^108 <= n < 2^110, by Newton's iteration from above:
\* doubled is 2 * n, x is at least the root and below 2^55, and y is the
\* next iterate floor((x + floor(n / x)) / 2); the first iterate that does
\* not fall is the root
RECURSIVE BigSqrtFrom(_, _)
BigSqrtNext(doubled, x, y) ==
    IF BigCmp(y, x) >= 0 THEN x ELSE BigSqrtFrom(doubled, y)

BigSqrtFrom(doubled, x) ==
    BigSqrtNext(doubled, x,
                BigShr(BigAdd(x, BigDivScaled(doubled, BigShl(x, 1)).q), 1))

BigSqrt(n) == BigSqrtFrom(BigShl(n, 1), BigSub(BigShl(<<1>>, 55), <<1>>))

\* the square root of n * 2^e for an even e and a mantissa n of 53 or 54
\* binary digits, from the whole part r of the root of n * 2^56
F64SqrtRounded(n, e, r) == F64Round(0, r, e \div 2 - 28, BigCmp(BigMul(r, r), n) # 0)

F64SqrtScaled(n, e) == F64SqrtRounded(BigShl(n, 56), e, BigSqrt(BigShl(n, 56)))

\* Math.sqrt
F64Sqrt(a) ==
    IF a.k = "nan" THEN F64NaN
    ELSE IF a.k = "zero" THEN F64Zero
    ELSE IF a.s = 1 THEN F64NaN
    ELSE IF a.k = "inf" THEN a
    ELSE IF a.e % 2 = 0 THEN F64SqrtScaled(a.m, a.e)
    ELSE F64SqrtScaled(BigShl(a.m, 1), a.e - 1)

(***************************************************************************)
(* Texts.  A CSV field is the sequence of its characters; a character is   *)
(* written as itself when it is printable ASCII and as its code point,     *)
(* "U+0009", otherwise.  The numerals of the fields denote numbers below   *)
(* 2^31 with at most nine decimal places, which the conversions below turn *)
(* into the double the code gets.                                          *)
(***************************************************************************)
Digits == <<"0", "1", "2", "3", "4", "5", "6", "7", "8", "9">>
isDigit(c) == \E k \in 1..10 : Digits[k] = c
digitValue(c) == (CHOOSE k \in 1..10 : Digits[k] = c) - 1

\* the characters that parseInt and Number skip at the start of a string,
\* and Number at its end (StrWhiteSpaceChar): TAB, LF, VT, FF, CR, SP, NBSP,
\* the space separators of Unicode, LS, PS and ZWNBSP
StrWhiteSpaceChar ==
    {"U+0009", "U+000A", "U+000B", "U+000C", "U+000D", " ", "U+00A0",
     "U+1680", "U+2000", "U+2001", "U+2002", "U+2003", "U+2004", "U+2005",
     "U+2006", "U+2007", "U+2008", "U+2009", "U+200A", "U+2028", "U+2029",
     "U+202F", "U+205F", "U+3000", "U+FEFF"}

RECURSIVE trimStart(_)
trimStart(chars) ==
    IF Len(chars) > 0 /\ Head(chars) \in StrWhiteSpaceChar
    THEN trimStart(Tail(chars))
    ELSE chars

RECURSIVE trimEnd(_)
trimEnd(chars) ==
    IF Len(chars) > 0 /\ chars[Len(chars)] \in StrWhiteSpaceChar
    THEN trimEnd(SubSeq(chars, 1, Len(chars) - 1))
    ELSE chars

\* chars without its first n characters
dropFirst(chars, n) == SubSeq(chars, n + 1, Len(chars))

\* the digits of a radix up to 16, and the value of one of them
RadixDigits ==
    <<"0", "1", "2", "3", "4", "5", "6", "7", "8", "9", "a", "b", "c", "d",
      "e", "f">>
UpperDigits == <<"A", "B", "C", "D", "E", "F">>
isDigitOf(radix, c) ==
    \/ \E k \in 1..radix : RadixDigits[k] = c
    \/ \E k \in 1..(radix - 10) : UpperDigits[k] = c
digitValueOf(c) ==
    IF \E k \in 1..16 : RadixDigits[k] = c
    THEN (CHOOSE k \in 1..16 : RadixDigits[k] = c) - 1
    ELSE (CHOOSE k \in 1..6 : UpperDigits[k] = c) + 9

\* the number of digits of the radix at the start of chars
RECURSIVE digitsAtStart(_, _)
digitsAtStart(chars, radix) ==
    IF Len(chars) > 0 /\ isDigitOf(radix, Head(chars))
    THEN 1 + digitsAtStart(Tail(chars), radix)
    ELSE 0

\* the natural number that the digits chars denote in the radix, after the
\* digits of value acc
RECURSIVE numeralValue(_, _, _)
numeralValue(chars, radix, acc) ==
    IF Len(chars) = 0 THEN acc
    ELSE numeralValue(Tail(chars), radix, radix * acc + digitValueOf(Head(chars)))

\* the double n * 10^scale
scaledDecimal(n, scale) ==
    IF scale = 0 THEN F64OfInt(n)
    ELSE IF scale > 0 THEN F64Mul(F64OfInt(n), F64OfInt(10 ^ scale))
    ELSE F64Div(F64OfInt(n), F64OfInt(10 ^ (-scale)))

\* the exponent part "e", sign, digits that is all of chars: its value, or
\* none
exponentPart(chars) ==
    IF Len(chars) = 0 THEN [ok |-> TRUE, v |-> 0]
    ELSE IF Head(chars) \notin {"e", "E"} THEN [ok |-> FALSE, v |-> 0]
    ELSE IF Len(chars) > 1 /\ chars[2] \in {"+", "-"}
    THEN IF Len(chars) > 2 /\ digitsAtStart(dropFirst(chars, 2), 10) = Len(chars) - 2
         THEN [ok |-> TRUE,
               v |-> IF chars[2] = "-" THEN -numeralValue(dropFirst(chars, 2), 10, 0)
                     ELSE numeralValue(dropFirst(chars, 2), 10, 0)]
         ELSE [ok |-> FALSE, v |-> 0]
    ELSE IF Len(chars) > 1 /\ digitsAtStart(Tail(chars), 10) = Len(chars) - 1
    THEN [ok |-> TRUE, v |-> numeralValue(Tail(chars), 10, 0)]
    ELSE [ok |-> FALSE, v |-> 0]

\* an unsigned decimal literal whose whole part has intLen digits and whose
\* fraction, if there is a point, fracLen: digits, point, digits, exponent
decimalWith(chars, intLen, point, fracLen, exponent) ==
    IF intLen + fracLen = 0 \/ ~exponent.ok THEN F64NaN
    ELSE scaledDecimal(
             numeralValue(SubSeq(chars, 1, intLen)
                              \o SubSeq(chars, intLen + 2, intLen + 1 + fracLen),
                          10, 0),
             exponent.v - fracLen)

decimalFrom(chars, intLen, point) ==
    decimalWith(chars, intLen, point,
                IF point THEN digitsAtStart(dropFirst(chars, intLen + 1), 10) ELSE 0,
                exponentPart(
                    IF point
                    THEN dropFirst(chars, intLen + 1
                                          + digitsAtStart(dropFirst(chars, intLen + 1), 10))
                    ELSE dropFirst(chars, intLen)))

\* StrUnsignedDecimalLiteral: Infinity or a decimal literal; NaN for
\* anything else
unsignedDecimal(chars) ==
    IF chars = <<"I", "n", "f", "i", "n", "i", "t", "y">> THEN F64Inf(0)
    ELSE decimalFrom(chars, digitsAtStart(chars, 10),
                     Len(chars) > digitsAtStart(chars, 10)
                         /\ chars[digitsAtStart(chars, 10) + 1] = ".")

\* the radix of a literal that starts with 0x, 0o or 0b, or 0
radixPrefix(chars) ==
    IF Len(chars) < 2 \/ chars[1] # "0" THEN 0
    ELSE IF chars[2] \in {"x", "X"} THEN 16
    ELSE IF chars[2] \in {"o", "O"} THEN 8
    ELSE IF chars[2] \in {"b", "B"} THEN 2
    ELSE 0

\* NonDecimalIntegerLiteral: at least one digit of the radix, and no sign
nonDecimal(chars, radix) ==
    IF Len(chars) > 2 /\ digitsAtStart(dropFirst(chars, 2), radix) = Len(chars) - 2
    THEN F64OfInt(numeralValue(dropFirst(chars, 2), radix, 0))
    ELSE F64NaN

\* StringToNumber of a string without white space at its ends
trimmedToNumber(chars) ==
    IF Len(chars) = 0 THEN F64Zero
    ELSE IF radixPrefix(chars) # 0 THEN nonDecimal(chars, radixPrefix(chars))
    ELSE IF Head(chars) = "-" THEN F64Neg(unsignedDecimal(Tail(chars)))
    ELSE IF Head(chars) = "+" THEN unsignedDecimal(Tail(chars))
    ELSE unsignedDecimal(chars)

\* Number(text), the unary plus of a string
toNumber(text) == trimmedToNumber(trimEnd(trimStart(text)))

\* the decimal numeral of a natural number
RECURSIVE numeralOf(_)
numeralOf(n) ==
    IF n < 10 THEN <<Digits[n + 1]>>
    ELSE Append(numeralOf(n \div 10), Digits[(n % 10) + 1])

(***************************************************************************)
(* Array.prototype.sort with a comparator: a stable sort.  Cmp(a, b) < 0   *)
(* puts a before b; elements that compare 0 keep their order.              *)
(***************************************************************************)
StableSort(s, Cmp(_, _)) ==
    LET n == Len(s)
        placed == { <<Cardinality({ j \in 1..n :
                          LET c == Cmp(s[j], s[i])
                          IN  c < 0 \/ (c = 0 /\ j < i) }) + 1, i>> : i \in 1..n }
    IN  Array([k \in 1..n |-> s[(CHOOSE p \in placed : p[1] = k)[2]]], n)

(***************************************************************************)
(* generateParliamentSeats(totalSeats, rowCount, innerRadius, outerRadius) *)
(***************************************************************************)

\* step = (outerRadius - innerRadius) / (rowCount - 1); with rowCount = 1
\* it is x / 0
step(rowCount, innerRadius, outerRadius) ==
    F64Div(F64Sub(outerRadius, innerRadius), F64OfInt(rowCount - 1))

\* radii[i] = innerRadius + i * step
radiiBy(rowCount, innerRadius, st) ==
    Array([k \in 1..rowCount |-> F64Add(innerRadius, F64Mul(F64OfInt(k - 1), st))],
          rowCount)

radii(rowCount, innerRadius, outerRadius) ==
    radiiBy(rowCount, innerRadius, step(rowCount, innerRadius, outerRadius))

\* arcLengths = radii.map((r) => Math.PI * r)
arcLengths(rs) == Array([k \in 1..Len(rs) |-> F64Mul(MathPI, rs[k])], Len(rs))

\* d3.sum(values): "if (value = +value) sum += value" from sum = 0, so a NaN
\* and a zero add nothing
RECURSIVE d3sum(_, _, _)
d3sum(values, i, sum) ==
    IF i > Len(values) THEN sum
    ELSE d3sum(values, i + 1,
               IF values[i].k \in {"nan", "zero"} THEN sum
               ELSE F64Add(sum, values[i]))

totalArcLength(lens) == d3sum(lens, 1, F64Zero)

\* Math.round(totalSeats * (len / totalArcLength)) for a row that is not the
\* last one.  A zero total gives 0 / 0 = NaN.
roundedShare(totalSeats, len, total) ==
    MathRound(F64Mul(F64OfInt(totalSeats), F64Div(len, total)))

\* rowCounts: every row but the last gets its rounded share, the last row gets
\* totalSeats - seatsAllocated.
RECURSIVE allocateRows(_, _, _, _)
allocateRows(totalSeats, shares, i, seatsAllocated) ==
    IF i > Len(shares) THEN <<NumSub(Num(totalSeats), seatsAllocated)>>
    ELSE <<shares[i]>> \o allocateRows(totalSeats, shares, i + 1,
                                       NumAdd(seatsAllocated, shares[i]))

\* the rounded share of every row but the last
roundedShares(totalSeats, lens, total) ==
    Array([k \in 1..(Len(lens) - 1) |-> roundedShare(totalSeats, lens[k], total)],
          Len(lens) - 1)

rowCountsOf(totalSeats, lens) ==
    IF lens = <<>> THEN <<>>
    ELSE allocateRows(totalSeats,
                      roundedShares(totalSeats, lens, totalArcLength(lens)),
                      1, Num(0))

rowCounts(totalSeats, rowCount, innerRadius, outerRadius) ==
    rowCountsOf(totalSeats, arcLengths(radii(rowCount, innerRadius, outerRadius)))

\* angleStep = Math.PI / (count - 1 || 1)
angleStep(count) ==
    F64Div(MathPI, F64OfInt(IF count - 1 = 0 THEN 1 ELSE count - 1))

\* angle of seat i (from 0) of a row: Math.PI - i * angleStep
seatAngle(i, rowAngleStep) == F64Sub(MathPI, F64Mul(F64OfInt(i), rowAngleStep))

\* the seats of one row, in the order the inner loop pushes them; the loop
\* "for (i = 0; i < count; i++)" runs zero times for a count that is NaN or <= 0
seatsAt(count, rowIndex, rowAngleStep) ==
    Array([k \in 1..count |->
              [row |-> rowIndex, theta |-> seatAngle(k - 1, rowAngleStep)]],
          count)

seatsOfRow(count, rowIndex) ==
    IF count.nan \/ count.v <= 0 THEN <<>>
    ELSE seatsAt(count.v, rowIndex, angleStep(count.v))

RECURSIVE pushRows(_, _)
pushRows(counts, i) ==
    IF i > Len(counts) THEN <<>>
    ELSE seatsOfRow(counts[i], i - 1) \o pushRows(counts, i + 1)

\* the comparator of seats.sort((a, b) => b.theta - a.theta)
byThetaAscending(a, b) == F64Cmp(a.theta, b.theta)
byThetaDescending(a, b) == F64Cmp(b.theta, a.theta)

\* seats.forEach((seat, index) => { seat.number = index + 1 })
seatNumberOf(index) == index + 1

numbered(seats) ==
    Array([k \in 1..Len(seats) |->
              [row |-> seats[k].row, theta |-> seats[k].theta,
               number |-> seatNumberOf(k - 1)]], Len(seats))

generateParliamentSeats(totalSeats, rowCount, innerRadius, outerRadius) ==
    numbered(StableSort(
        pushRows(rowCounts(totalSeats, rowCount, innerRadius, outerRadius), 1),
        byThetaDescending))

(***************************************************************************)
(* generateParliamentSeats on its own: the arguments are drawn from the    *)
(* bounded sets, the call returns the seats.                               *)
(***************************************************************************)
GenInputs ==
    { a \in [totalSeats : 1..MaxTotalSeats, rowCount : 1..MaxRowCount,
             innerRadius : 1..MaxRadius, outerRadius : 1..MaxRadius] :
        a.innerRadius <= a.outerRadius }

InitSeats ==
    /\ genArgs \in GenInputs
    /\ genResult = [called |-> FALSE, seats |-> <<>>]
    /\ FillIdle
    /\ ViewIdle
    /\ LayoutIdle
    /\ MapIdle
    /\ CallIdle
    /\ StoreIdle
    /\ DebounceIdle
    /\ ChartIdle
    /\ RetryIdle

GenerateSeats ==
    /\ ~genResult.called
    /\ genResult' = [called |-> TRUE,
                     seats |-> generateParliamentSeats(genArgs.totalSeats,
                                   genArgs.rowCount,
                                   F64OfInt(genArgs.innerRadius),
                                   F64OfInt(genArgs.outerRadius))]
    /\ UNCHANGED <<genArgs, fillVars, viewVars, layoutVars, mapVars,
                   callVars, storeVars, debounceVars, chartVars, retryVars>>

NextSeats == GenerateSeats

SpecSeats == InitSeats /\ [][NextSeats]_vars

\* C1 (as claimed): generateParliamentSeats returns exactly totalSeats seats
\* for every totalSeats > 0, rowCount in 1..10 and 0 < innerRadius <=
\* outerRadius.
C1_ExactSeatCount ==
    genResult.called => Len(genResult.seats) = genArgs.totalSeats

\* C2: the returned seats carry the numbers 1..N, the seat at position i
\* (from 0) carries number i + 1, and the angles never increase along the
\* sequence.
C2_NumberedByAngle ==
    genResult.called =>
        \A k \in 1..Len(genResult.seats) :
            /\ genResult.seats[k].number = k
            /\ k < Len(genResult.seats) =>
                   F64Le(genResult.seats[k + 1].theta, genResult.seats[k].theta)

\* C2 witness: a returned sequence in which seats of several rows are merged:
\* an outer-row seat stands before an inner-row seat of smaller angle.
C2_Witness ==
    /\ genResult.called
    /\ \E k \in 1..(Len(genResult.seats) - 1) :
          /\ genResult.seats[k].row > genResult.seats[k + 1].row
          /\ F64Lt(genResult.seats[k + 1].theta, genResult.seats[k].theta)

(***************************************************************************)
(* drawParliamentSeats: the block fill.                                    *)
(*                                                                         *)
(* finalData is the array the fill writes, index i of the code being       *)
(* position i + 1 of the sequence.  writes counts, per index, how often    *)
(* the fill assigned it (a history of the fill, not a value of the code).  *)
(***************************************************************************)
partyData ==
    << [id |-> "IND", count |-> 2],
       [id |-> "DPP", count |-> 38],
       [id |-> "KMT", count |-> 39] >>

\* d3.sum(partyData, (d) => d.count)
totalSeatsOf(parties) == SumSeq([k \in 1..Len(parties) |-> parties[k].count])

\* generateParliamentSeats(totalSeats, 5, innerRadius, outerRadius)
seatRowCount == 5

\* maxRadius = Math.min(width * 0.45, height * 0.85), with 0.45 =
\* 8106479329266893 * 2^-54 and 0.85 = 7656119366529843 * 2^-53
maxRadiusOf(width, height) ==
    F64Min(F64Mul(F64OfInt(width), F64Exact(8106479, 329266893, -54)),
           F64Mul(F64OfInt(height), F64Exact(7656119, 366529843, -53)))
\* innerRadius = maxRadius * 0.3 and outerRadius = maxRadius * 0.95, with
\* 0.3 = 5404319552844595 * 2^-54 and 0.95 = 8556839292003942 * 2^-53
innerRadiusOf(maxRadius) == F64Mul(maxRadius, F64Exact(5404319, 552844595, -54))
outerRadiusOf(maxRadius) == F64Mul(maxRadius, F64Exact(8556839, 292003942, -53))

seatCoordsOf(parties, width, height) ==
    generateParliamentSeats(totalSeatsOf(parties), seatRowCount,
                            innerRadiusOf(maxRadiusOf(width, height)),
                            outerRadiusOf(maxRadiusOf(width, height)))

Null == [null |-> TRUE]

\* centerIndex = Math.floor(seatCoords.length / 2); indStartIndex = centerIndex - 1
centerIndexOf(n) == n \div 2
indStartIndexOf(n) == centerIndexOf(n) - 1

\* finalData[i] === null: false for an index outside the array (undefined)
isNull(fd, i) ==
    i >= 0 /\ i < Len(fd.finalData) /\ fd.finalData[i + 1] = Null

\* finalData[i] = { ...seatCoords[i], party, partySeatNumber }
assign(fd, seatCoords, i, party, partySeatNumber) ==
    [finalData |-> [fd.finalData EXCEPT ![i + 1] =
                       [row |-> seatCoords[i + 1].row,
                        theta |-> seatCoords[i + 1].theta,
                        number |-> seatCoords[i + 1].number,
                        party |-> party.id,
                        partySeatNumber |-> partySeatNumber]],
     writes |-> [fd.writes EXCEPT ![i + 1] = @ + 1]]

\* for (let i = 0; i < indParty.count; i++) { seatIndex = indStartIndex + i ... }
RECURSIVE assignCenter(_, _, _, _, _)
assignCenter(fd, seatCoords, indParty, indStartIndex, i) ==
    IF i >= indParty.count THEN fd
    ELSE LET seatIndex == indStartIndex + i
         IN  assignCenter(
                 IF seatIndex >= 0 /\ seatIndex < Len(seatCoords)
                 THEN assign(fd, seatCoords, seatIndex, indParty, i + 1)
                 ELSE fd,
                 seatCoords, indParty, indStartIndex, i + 1)

\* for (let i = indStartIndex - 1; i >= 0; i--): the loop's test
leftLoopSkipsZero(i) == i > 0
leftLoopRuns(i) == i >= 0

RECURSIVE assignLeft(_, _, _, _, _)
assignLeft(fd, seatCoords, dppParty, i, dppSeatNumber) ==
    IF ~leftLoopRuns(i) THEN [fd |-> fd, seatNumber |-> dppSeatNumber]
    ELSE IF isNull(fd, i) /\ dppSeatNumber <= dppParty.count
         THEN assignLeft(assign(fd, seatCoords, i, dppParty, dppSeatNumber),
                         seatCoords, dppParty, i - 1, dppSeatNumber + 1)
         ELSE assignLeft(fd, seatCoords, dppParty, i - 1, dppSeatNumber)

\* for (let i = indStartIndex + indParty.count; i < seatCoords.length; i++):
\* the loop's first index
rightLoopFromZero(indStartIndex, indCount) == 0
rightLoopStart(indStartIndex, indCount) == indStartIndex + indCount

RECURSIVE assignRight(_, _, _, _, _)
assignRight(fd, seatCoords, kmtParty, i, kmtSeatNumber) ==
    IF i >= Len(seatCoords) THEN [fd |-> fd, seatNumber |-> kmtSeatNumber]
    ELSE IF isNull(fd, i) /\ kmtSeatNumber <= kmtParty.count
         THEN assignRight(assign(fd, seatCoords, i, kmtParty, kmtSeatNumber),
                          seatCoords, kmtParty, i + 1, kmtSeatNumber + 1)
         ELSE assignRight(fd, seatCoords, kmtParty, i + 1, kmtSeatNumber)

\* lines 1740-1794: finalData, the per-party counters that the code logs, and
\* filteredData = finalData.filter((d) => d !== null)
assignParties(seatCoords, parties) ==
    LET n == Len(seatCoords)
        indStartIndex == indStartIndexOf(n)
        empty == [finalData |-> Array([k \in 1..n |-> Null], n),
                  writes |-> Array([k \in 1..n |-> 0], n)]
        center == assignCenter(empty, seatCoords, parties[1], indStartIndex, 0)
        left == assignLeft(center, seatCoords, parties[2], indStartIndex - 1, 1)
        right == assignRight(left.fd, seatCoords, parties[3],
                             rightLoopStart(indStartIndex, parties[1].count), 1)
    IN  [finalData |-> right.fd.finalData,
         writes |-> right.fd.writes,
         indStartIndex |-> indStartIndex,
         dppAssigned |-> left.seatNumber - 1,
         kmtAssigned |-> right.seatNumber - 1,
         filteredData |-> SelectSeq(right.fd.finalData, LAMBDA d : d # Null)]

(***************************************************************************)
(* The block fill on its own: the party table is drawn from the bounded    *)
(* tables and the configured one; the seats are generated for the sum of   *)
(* its counts as drawParliamentSeats does, in a container of non-zero size *)
(* (rows and angles do not depend on the size).                            *)
(***************************************************************************)
partyTable(ind, dpp, kmt) ==
    << [id |-> "IND", count |-> ind],
       [id |-> "DPP", count |-> dpp],
       [id |-> "KMT", count |-> kmt] >>

FillInputs ==
    { partyTable(c[1], c[2], c[3]) :
        c \in (0..MaxPartyCount) \X (0..MaxPartyCount) \X (0..MaxPartyCount) }
    \cup { partyData }

InitFill ==
    /\ fillArgs \in FillInputs
    /\ fillResult = [done |-> FALSE]
    /\ GenIdle
    /\ ViewIdle
    /\ LayoutIdle
    /\ MapIdle
    /\ CallIdle
    /\ StoreIdle
    /\ DebounceIdle
    /\ ChartIdle
    /\ RetryIdle

FillBlocks ==
    /\ ~fillResult.done
    /\ fillResult' = [done |-> TRUE] @@
                     assignParties(seatCoordsOf(fillArgs, 1, 1), fillArgs)
    /\ UNCHANGED <<fillArgs, genVars, viewVars, layoutVars, mapVars,
                   callVars, storeVars, debounceVars, chartVars, retryVars>>

NextFill == FillBlocks

SpecFill == InitFill /\ [][NextFill]_vars

seatsOfParty(finalData, id) ==
    { k \in 1..Len(finalData) : finalData[k] # Null /\ finalData[k].party = id }

\* C3: when the counts sum to the number of generated seats and the centre
\* block starts where exactly the second party's count of indices lie to its
\* left, every index is assigned exactly once, none is left null, and every
\* party holds exactly its declared count of seats.
C3_BlockPartition ==
    (/\ fillResult.done
     /\ totalSeatsOf(fillArgs) = Len(fillResult.finalData)
     /\ fillResult.indStartIndex = fillArgs[2].count)
    => /\ \A k \in 1..Len(fillResult.finalData) :
              fillResult.finalData[k] # Null /\ fillResult.writes[k] = 1
       /\ \A p \in 1..3 :
              Cardinality(seatsOfParty(fillResult.finalData, fillArgs[p].id))
                  = fillArgs[p].count
       /\ Len(fillResult.filteredData) = Len(fillResult.finalData)

\* C3 witness: the configured table IND 2, DPP 38, KMT 39 filled over 79 seats
\* from start index floor(79 / 2) - 1 = 38.
C3_Witness ==
    /\ fillResult.done
    /\ fillArgs = partyData
    /\ Len(fillResult.finalData) = 79
    /\ fillResult.indStartIndex = 38
    /\ fillResult.dppAssigned = 38
    /\ fillResult.kmtAssigned = 39

blockOrderOf(IND, DPP, KMT, fd, start, indCount) ==
    /\ \A k \in IND : k - 1 = start + fd[k].partySeatNumber - 1
    /\ \A k \in DPP : k - 1 < start
    /\ \A k \in DPP : \A m \in DPP :
           fd[k].partySeatNumber < fd[m].partySeatNumber => k > m
    /\ \A k \in KMT : k - 1 >= start + indCount
    /\ \A k \in KMT : \A m \in KMT :
           fd[k].partySeatNumber < fd[m].partySeatNumber => k < m
    /\ \A d \in DPP : \A i \in IND : d < i /\ F64Le(fd[i].theta, fd[d].theta)
    /\ \A i \in IND : \A k \in KMT : i < k /\ F64Le(fd[k].theta, fd[i].theta)

\* C4 as stated: IND holds every index of indStartIndex .. indStartIndex +
\* count - 1 of the sorted sequence and no other, DPP only indices below
\* indStartIndex, given out in descending order, KMT only indices from
\* indStartIndex + count upward, given out in ascending order; every DPP seat
\* is left of (at an angle not smaller than) every IND seat, which is left of
\* every KMT seat.  The guard of line 1748 drops the indices of the range
\* that the array does not have: index -1 for a sequence of one seat.
C4_BlockOnWholeRange ==
    fillResult.done =>
        LET fd == fillResult.finalData
            start == fillResult.indStartIndex
            indCount == fillArgs[1].count
            IND == seatsOfParty(fd, fillArgs[1].id)
        IN  /\ \A i \in start..(start + indCount - 1) :
                   i >= 0 /\ i < Len(fd) /\ (i + 1) \in IND
            /\ \A k \in IND : start <= k - 1 /\ k - 1 <= start + indCount - 1
            /\ blockOrderOf(IND, seatsOfParty(fd, fillArgs[2].id),
                            seatsOfParty(fd, fillArgs[3].id), fd, start, indCount)

\* C4, amended: IND holds those indices of indStartIndex .. indStartIndex +
\* count - 1 that the sorted sequence has (an index of the range below 0 or
\* past the last seat gets no seat) and no other; the rest as stated.
C4_BlockOrder ==
    fillResult.done =>
        LET fd == fillResult.finalData
            start == fillResult.indStartIndex
            indCount == fillArgs[1].count
            IND == seatsOfParty(fd, fillArgs[1].id)
        IN  /\ IND = { k \in 1..Len(fd) : start <= k - 1 /\ k - 1 <= start + indCount - 1 }
            /\ blockOrderOf(IND, seatsOfParty(fd, fillArgs[2].id),
                            seatsOfParty(fd, fillArgs[3].id), fd, start, indCount)

\* C4 witness: the configured fill, with a DPP seat directly left of the IND
\* block and a KMT seat directly right of it.
C4_Witness ==
    /\ fillResult.done
    /\ fillArgs = partyData
    /\ fillResult.finalData[38].party = "DPP"
    /\ fillResult.finalData[38].partySeatNumber = 1
    /\ fillResult.finalData[39].party = "IND"
    /\ fillResult.finalData[40].party = "IND"
    /\ fillResult.finalData[41].party = "KMT"
    /\ fillResult.finalData[41].partySeatNumber = 1

(***************************************************************************)
(* loadCandidateData and the candidate binding of drawParliamentSeats.     *)
(*                                                                         *)
(* A CSV row is [name, party, votes]: name stands for the field with the   *)
(* candidate's name, party is the recommending party as written in the     *)
(* file, votes the text of the vote count.  The party names of the file    *)
(* are written in Latin letters here: "MinJinDang" and "GuoMinDang" for    *)
(* the two names partyNameMap knows, "Wu" for its third key.               *)
(***************************************************************************)
\* the properties every object literal inherits from Object.prototype
ObjectPrototypeKeys ==
    {"constructor", "__proto__", "hasOwnProperty", "isPrototypeOf",
     "propertyIsEnumerable", "toLocaleString", "toString", "valueOf",
     "__defineGetter__", "__defineSetter__", "__lookupGetter__",
     "__lookupSetter__"}

\* the value of an inherited property, a function or, for __proto__, the
\* prototype object; its name stands for it
inherited(key) == "Object.prototype." \o key

\* partyNameMap[d.party] || 'IND' (line 1618): the id of a key of the map,
\* the inherited member for a name Object.prototype has, which is truthy,
\* and 'IND' for every other name
partyIdOf(party) ==
    IF party = "MinJinDang" THEN "DPP"
    ELSE IF party = "GuoMinDang" THEN "KMT"
    ELSE IF party = "Wu" THEN "IND"
    ELSE IF party \in ObjectPrototypeKeys THEN inherited(party)
    ELSE "IND"

\* const partyOrder = { IND: 0, DPP: 1, KMT: 2 }; partyOrder[id] (line
\* 1625) as the number the subtraction gets: undefined, which is NaN in a
\* subtraction, for an id that is a function or an object
partyOrder(id) ==
    IF id = "IND" THEN F64Zero
    ELSE IF id = "DPP" THEN F64OfInt(1)
    ELSE IF id = "KMT" THEN F64OfInt(2)
    ELSE F64NaN

\* the comparator of data.sort (lines 1622-1631): party order first, then
\* votes descending; partyDiff !== 0 holds for NaN
byPartyThenVotesBy(partyDiff, a, b) ==
    IF partyDiff.k # "zero" THEN partyDiff ELSE F64Sub(b.votes, a.votes)

byPartyThenVotes(a, b) ==
    byPartyThenVotesBy(F64Sub(partyOrder(a.partyId), partyOrder(b.partyId)), a, b)

\* what sort makes of the comparator's value (SortCompare): NaN counts as 0
SortCompare(v) == IF v.k = "nan" THEN 0 ELSE F64Sign(v)

\* the comparator's verdict on every pair of items
compared(items, Cmp(_, _)) ==
    Array([i \in 1..Len(items) |->
              Array([j \in 1..Len(items) |->
                        SortCompare(Cmp(items[i], items[j]))], Len(items))],
          Len(items))

\* the comparator is consistent on the items: equality is reflexive,
\* symmetric and transitive, and so are before and after
consistentComparator(c) ==
    \A i \in 1..Len(c) :
        /\ c[i][i] = 0
        /\ \A j \in 1..Len(c) :
               /\ c[i][j] = 0 => c[j][i] = 0
               /\ \A k \in 1..Len(c) :
                      /\ (c[i][j] = 0 /\ c[j][k] = 0) => c[i][k] = 0
                      /\ (c[i][j] < 0 /\ c[j][k] < 0) => c[i][k] < 0
                      /\ (c[i][j] > 0 /\ c[j][k] > 0) => c[i][k] > 0

\* the items in the order of a permutation of their indices
permuted(items, p) == Array([k \in 1..Len(items) |-> items[p[k]]], Len(items))

\* the stable order of the indices under the verdicts c
sortedIndices(c) ==
    StableSort(Array([i \in 1..Len(c) |-> i], Len(c)), LAMBDA i, j : c[i][j])

\* Array.prototype.sort with a comparator, the arrays it may leave: the
\* stable order where the comparator is consistent, and an order that the
\* implementation chooses where it is not
sortOutcomes(items, c) ==
    IF consistentComparator(c) THEN { permuted(items, sortedIndices(c)) }
    ELSE { permuted(items, p) : p \in Permutations(1..Len(items)) }

ArraySort(items, Cmp(_, _)) == sortOutcomes(items, compared(items, Cmp))

\* data.forEach (lines 1616-1619): d.votes = +d.votes and d.partyId
converted(rows) ==
    Array([k \in 1..Len(rows) |->
              [name |-> rows[k].name, votes |-> toNumber(rows[k].votes),
               partyId |-> partyIdOf(rows[k].party)]], Len(rows))

\* the arrays loadCandidateData may return for the rows of the file: the
\* rows after data.forEach and data.sort
loadCandidateData(rows) == ArraySort(converted(rows), byPartyThenVotes)

\* centerAngle = Math.PI / 2
centerAngle == F64Div(MathPI, F64OfInt(2))

\* Math.abs(seat.theta - centerAngle)
distToCenter(seat) == F64Abs(F64Sub(seat.theta, centerAngle))

\* the comparator of seats.sort inside a party: outer rows first, then the
\* seats nearest to the top centre
byRowThenCenter(a, b) ==
    IF a.row # b.row THEN b.row - a.row
    ELSE F64Cmp(distToCenter(a), distToCenter(b))

\* seats.forEach((seat, index) => ...): the candidate of the same index, or
\* the placeholder name with votes 0
bindSeat(seat, partyCandidates, index) ==
    [row |-> seat.row, theta |-> seat.theta, number |-> seat.number,
     party |-> seat.party, partySeatNumber |-> seat.partySeatNumber,
     rank |-> index + 1] @@
    IF index < Len(partyCandidates)
    THEN [placeholder |-> FALSE,
          candidateName |-> partyCandidates[index + 1].name,
          votes |-> partyCandidates[index + 1].votes]
    ELSE [placeholder |-> TRUE, candidateName |-> index + 1, votes |-> F64Zero]

\* partyGroups[partyId] after seats.sort (lines 1802-1822)
rankedSeats(filteredData, partyId) ==
    StableSort(SelectSeq(filteredData, LAMBDA d : d.party = partyId),
               byRowThenCenter)

\* one party of Object.keys(partyGroups).forEach: its sorted seats bound
bindRanked(seats, partyCandidates) ==
    { bindSeat(seats[k], partyCandidates, k - 1) : k \in 1..Len(seats) }

\* candidates.filter((c) => c.partyId === partyId) (line 1825)
partyCandidatesOf(candidates, partyId) ==
    SelectSeq(candidates, LAMBDA c : c.partyId = partyId)

\* filteredData with the seats of bound in place of its own: the seats are
\* changed in place, so the order of filteredData stays
inPlace(filteredData, bound) ==
    Array([k \in 1..Len(filteredData) |->
              CHOOSE b \in bound : b.number = filteredData[k].number],
          Len(filteredData))

\* g.selectAll('.seat-group').data(filteredData).enter().append('g'): one
\* group per element of filteredData
seatGroupsWithCandidate(filteredData) ==
    SelectSeq(filteredData, LAMBDA d : ~d.placeholder)
seatGroupsOf(filteredData) == filteredData

(***************************************************************************)
(* The parliament seat view: onMounted, handleResize, drawParliamentSeats  *)
(* and onUnmounted.  drawParliamentSeats suspends once, at                 *)
(* await loadCandidateData(); the rest of it runs without interruption     *)
(* when the load returns.                                                  *)
(***************************************************************************)
\* the files the CSV request may return: 79 rows, two of them independents,
\* 38 and 39 of the two parties, in no order of votes
fullCsv ==
    Array([i \in 1..79 |->
              [name |-> i,
               party |-> IF i \in {20, 61} THEN "Wu"
                         ELSE IF i % 2 = 0 THEN "MinJinDang" ELSE "GuoMinDang",
               votes |-> numeralOf(40000 + 1000 * ((31 * i) % 79))]], 79)

\* a short file: equal vote counts, a party partyNameMap does not know, a
\* vote count between blanks, an empty one, and more independents than the
\* two centre seats
shortCsv ==
    << [name |-> 1, party |-> "MinJinDang", votes |-> <<"5", "0", "0">>],
       [name |-> 2, party |-> "Wu", votes |-> <<"3", "0", "0">>],
       [name |-> 3, party |-> "MinJinDang", votes |-> <<"7", "0", "0">>],
       [name |-> 4, party |-> "TaiwanMinZhongDang", votes |-> <<"9", "0", "0">>],
       [name |-> 5, party |-> "GuoMinDang", votes |-> <<>>],
       [name |-> 6, party |-> "MinJinDang", votes |-> <<" ", "5", "0", "0", " ">>],
       [name |-> 7, party |-> "", votes |-> <<"3", "0", "0">>] >>

\* a file with a party whose name Object.prototype has, between two rows of
\* one party, and a vote count that is no number
oddCsv ==
    << [name |-> 1, party |-> "GuoMinDang", votes |-> <<"1">>],
       [name |-> 2, party |-> "constructor", votes |-> <<"3", "x">>],
       [name |-> 3, party |-> "GuoMinDang", votes |-> <<"5">>] >>

\* d3.csv resolves with the rows of the file or rejects
CsvOutcomes ==
    { [ok |-> FALSE, rows |-> <<>>], [ok |-> TRUE, rows |-> <<>>],
      [ok |-> TRUE, rows |-> shortCsv], [ok |-> TRUE, rows |-> fullCsv],
      [ok |-> TRUE, rows |-> oddCsv] }

ContainerSizes == (0..MaxContainerSide) \X (0..MaxContainerSide)

InitView ==
    /\ ViewCreated
    /\ containerSize \in ContainerSizes
    /\ GenIdle
    /\ FillIdle
    /\ LayoutIdle
    /\ MapIdle
    /\ CallIdle
    /\ StoreIdle
    /\ DebounceIdle
    /\ ChartIdle
    /\ RetryIdle

\* the start of drawParliamentSeats, up to await loadCandidateData():
\* "if (!containerRef.value) return" and then the request
drawParliamentSeatsCalled ==
    awaitingLoad' = IF containerRef THEN awaitingLoad + 1 ELSE awaitingLoad

\* onMounted
Mount ==
    /\ phase = "created"
    /\ phase' = "mounted"
    /\ containerRef' = TRUE
    /\ tickPending' = TRUE
    /\ listening' = TRUE
    /\ UNCHANGED <<containerSize, resizeTimer, resizes, awaitingLoad,
                   candidateData, svg, svgCreated, domSvgs, lastDraw>>
    /\ UNCHANGED <<genVars, fillVars, layoutVars, mapVars, callVars,
                   storeVars, debounceVars, chartVars, retryVars>>

\* the callback of nextTick
NextTickDraw ==
    /\ tickPending
    /\ tickPending' = FALSE
    /\ drawParliamentSeatsCalled
    /\ UNCHANGED <<phase, containerRef, containerSize, listening, resizeTimer,
                   resizes, candidateData, svg, svgCreated, domSvgs, lastDraw>>
    /\ UNCHANGED <<genVars, fillVars, layoutVars, mapVars, callVars,
                   storeVars, debounceVars, chartVars, retryVars>>

\* the window is resized to a new size of the container: handleResize
ResizeEvent(size) ==
    /\ listening
    /\ resizes < MaxResizes
    /\ resizes' = resizes + 1
    /\ containerSize' = size
    /\ resizeTimer' = "pending"
    /\ UNCHANGED <<phase, containerRef, listening, tickPending, awaitingLoad,
                   candidateData, svg, svgCreated, domSvgs, lastDraw>>
    /\ UNCHANGED <<genVars, fillVars, layoutVars, mapVars, callVars,
                   storeVars, debounceVars, chartVars, retryVars>>

\* the timeout of handleResize, 300 ms after the last resize event
ResizeTimerFires ==
    /\ resizeTimer = "pending"
    /\ resizeTimer' = "fired"
    /\ drawParliamentSeatsCalled
    /\ UNCHANGED <<phase, containerRef, containerSize, listening, tickPending,
                   resizes, candidateData, svg, svgCreated, domSvgs, lastDraw>>
    /\ UNCHANGED <<genVars, fillVars, layoutVars, mapVars, callVars,
                   storeVars, debounceVars, chartVars, retryVars>>

\* what loadCandidateData may return: the sorted rows, or [] when d3.csv
\* rejects
candidatesOf(outcome) ==
    IF outcome.ok THEN loadCandidateData(outcome.rows) ELSE {<<>>}

\* the loads of the model, computed once
loads == { [outcome |-> outcome, candidates |-> candidatesOf(outcome)] :
             outcome \in CsvOutcomes }

loadsOf(outcome) == (CHOOSE l \in loads : l.outcome = outcome).candidates

\* line 1587
areaDivisor == 18

\* line 1843: baseRadius = Math.min(maxRadius / 14, 18)
baseRadiusOf(maxRadius) ==
    F64Min(F64Div(maxRadius, F64OfInt(14)), F64OfInt(18))

\* seat.votes && seat.votes > 0 (line 1849): false for 0 and for NaN
hasVotes(votes) == votes.k \notin {"nan", "zero"} /\ votes.s = 0

\* Math.sqrt(seat.votes / (areaDivisor * Math.PI)) (line 1851)
sqrtRadius(votes) ==
    F64Sqrt(F64Div(votes, F64Mul(F64OfInt(areaDivisor), MathPI)))

\* the area of 1000 px2
maxArea == F64OfInt(1000)

\* a radius that is the square root of an area over pi, capped at the area
\* of 1000 px2
seatRadiusCapped(votes, baseRadius) ==
    IF hasVotes(votes)
    THEN F64Sqrt(F64Div(F64Min(F64Div(votes, F64OfInt(areaDivisor)), maxArea),
                        MathPI))
    ELSE baseRadius

\* sqrtRadius of the vote counts of the loads of the model, computed once
sqrtRadii ==
    { [votes |-> votes, radius |-> sqrtRadius(votes)] :
        votes \in { v \in UNION { { l[k].votes : k \in 1..Len(l) } :
                                   l \in UNION { load.candidates : load \in loads } } :
                      hasVotes(v) } }

sqrtRadiusOf(votes) ==
    IF \E t \in sqrtRadii : t.votes = votes
    THEN (CHOOSE t \in sqrtRadii : t.votes = votes).radius
    ELSE sqrtRadius(votes)

\* lines 1848-1856: the radius of a seat with votes, else baseRadius
seatRadius(votes, baseRadius) ==
    IF hasVotes(votes) THEN sqrtRadiusOf(votes) ELSE baseRadius

\* line 1902: .attr('r', (d) => d.radius || baseRadius); a radius that is 0
\* or NaN is falsy
circleR(radius, baseRadius) ==
    IF radius.k \in {"zero", "nan"} THEN baseRadius ELSE radius

\* a seat with its radius and the r of its circle
sized(seat, radius, baseRadius) ==
    seat @@ [radius |-> radius, r |-> circleR(radius, baseRadius)]

\* line 1848-1856 and 1902: every seat of filteredData with its radius and
\* the r of its circle
withRadius(filteredData, baseRadius) ==
    Array([k \in 1..Len(filteredData) |->
              sized(filteredData[k],
                    seatRadius(filteredData[k].votes, baseRadius), baseRadius)],
          Len(filteredData))

\* lines 1729-1822 of drawParliamentSeats for a size of the container, the
\* part that does not look at the candidates: the seats, the block fill and
\* the seats of every party in the order of seats.sort
seatingOfFilled(generated, filled, maxRadius) ==
    [generated |-> generated,
     dppAssigned |-> filled.dppAssigned,
     kmtAssigned |-> filled.kmtAssigned,
     filteredData |-> filled.filteredData,
     baseRadius |-> baseRadiusOf(maxRadius),
     ranked |-> Array([p \in 1..Len(partyData) |->
                          rankedSeats(filled.filteredData, partyData[p].id)],
                      Len(partyData))]

seatingOfCoords(seatCoords, maxRadius) ==
    seatingOfFilled(Len(seatCoords), assignParties(seatCoords, partyData), maxRadius)

seating(width, height) ==
    seatingOfCoords(seatCoordsOf(partyData, width, height),
                    maxRadiusOf(width, height))

\* the seating of every container size of the model, computed once
seatings ==
    { [size |-> size, seating |-> seating(size[1], size[2])] :
        size \in ContainerSizes }

seatingOf(width, height) ==
    IF <<width, height>> \in ContainerSizes
    THEN (CHOOSE s \in seatings : s.size = <<width, height>>).seating
    ELSE seating(width, height)

\* lines 1824-1856 on a seating: the candidates bound to the seats of their
\* parties in the order of the ranks, and the radii
layoutOfSeating(s, candidates) ==
    [generated |-> s.generated,
     dppAssigned |-> s.dppAssigned,
     kmtAssigned |-> s.kmtAssigned,
     filteredData |->
         withRadius(
             inPlace(s.filteredData,
                     UNION { bindRanked(s.ranked[p],
                                        partyCandidatesOf(candidates,
                                                          partyData[p].id)) :
                               p \in 1..Len(partyData) }),
             s.baseRadius)]

\* lines 1729-1866 of drawParliamentSeats: the seats, the block fill, the
\* candidate binding and the radii for the loaded candidates and the
\* container's size
seatLayout(candidates, width, height) ==
    layoutOfSeating(seatingOf(width, height), candidates)

\* the seat layouts of every input of the model, computed once
layouts ==
    { [size |-> size, candidates |-> candidates,
       layout |-> seatLayout(candidates, size[1], size[2])] :
        size \in ContainerSizes,
        candidates \in UNION { loadsOf(outcome) : outcome \in CsvOutcomes } }

layoutOf(candidates, size) ==
    (CHOOSE l \in layouts : l.size = size /\ l.candidates = candidates).layout

\* the container's svg elements with the old one left in place
keepOldSvg(svgs, handle) == svgs

\* line 1720-1722: if (svg) svg.remove(); handle is 0 for a null svg
removeOldSvg(svgs, handle) == SelectSeq(svgs, LAMBDA e : e.id # handle)

\* drawParliamentSeats from the return of loadCandidateData to its end.
\* lastDraw.overlapped records that some call so far resumed while another
\* call was waiting for its load
LoadReturns(outcome) ==
    /\ awaitingLoad > 0
    /\ awaitingLoad' = awaitingLoad - 1
    /\ \E candidates \in loadsOf(outcome) :
       LET \* if (svg) svg.remove()
           kept == removeOldSvg(domSvgs, svg)
           overlapped == lastDraw.overlapped \/ awaitingLoad > 1
       IN  /\ candidateData' = IF outcome.ok THEN candidates ELSE candidateData
           /\ IF ~containerRef
              THEN \* container is null: container.getBoundingClientRect() throws
                   /\ domSvgs' = kept
                   /\ UNCHANGED <<svg, svgCreated>>
                   /\ lastDraw' = [NoDraw EXCEPT !.done = TRUE, !.error = TRUE,
                                       !.loaded = outcome.ok,
                                       !.candidates = candidates,
                                       !.overlapped = overlapped]
              ELSE LET layout == layoutOf(candidates, containerSize)
                       groups == seatGroupsOf(layout.filteredData)
                   IN  /\ svgCreated' = svgCreated + 1
                       /\ svg' = svgCreated + 1
                       /\ domSvgs' = Append(kept,
                              [id |-> svgCreated + 1,
                               width |-> containerSize[1],
                               height |-> containerSize[2],
                               seatGroups |-> groups])
                       /\ lastDraw' = [done |-> TRUE, error |-> FALSE,
                                       loaded |-> outcome.ok,
                                       candidates |-> candidates,
                                       generated |-> layout.generated,
                                       dppAssigned |-> layout.dppAssigned,
                                       kmtAssigned |-> layout.kmtAssigned,
                                       shapes |-> Len(groups),
                                       overlapped |-> overlapped]
    /\ UNCHANGED <<phase, containerRef, containerSize, listening, tickPending,
                   resizeTimer, resizes>>
    /\ UNCHANGED <<genVars, fillVars, layoutVars, mapVars, callVars,
                   storeVars, debounceVars, chartVars, retryVars>>

\* onUnmounted
Unmount ==
    /\ phase = "mounted"
    /\ phase' = "unmounted"
    /\ containerRef' = FALSE
    /\ resizeTimer' = IF resizeTimer = "pending" THEN "cleared" ELSE resizeTimer
    /\ listening' = FALSE
    /\ domSvgs' = SelectSeq(domSvgs, LAMBDA e : e.id # svg)
    /\ svg' = 0
    /\ UNCHANGED <<containerSize, tickPending, resizes, awaitingLoad,
                   candidateData, svgCreated, lastDraw>>
    /\ UNCHANGED <<genVars, fillVars, layoutVars, mapVars, callVars,
                   storeVars, debounceVars, chartVars, retryVars>>

NextView ==
    \/ Mount
    \/ NextTickDraw
    \/ \E size \in ContainerSizes : ResizeEvent(size)
    \/ ResizeTimerFires
    \/ \E outcome \in CsvOutcomes : LoadReturns(outcome)
    \/ Unmount

SpecView == InitView /\ [][NextView]_vars

\* the SVG element the last drawParliamentSeats call appended, while it is
\* still in the container
drawnSvgs ==
    { k \in 1..Len(domSvgs) :
        lastDraw.done /\ ~lastDraw.error /\ domSvgs[k].id = svgCreated }

\* C5 (as claimed): a draw whose party allocations do not fit the generated
\* seats fails; so a draw that ends without an error has left no seat out and
\* has given every party its declared count.
C5_MismatchSurfaced ==
    (lastDraw.done /\ ~lastDraw.error) =>
        /\ lastDraw.generated = totalSeatsOf(partyData)
        /\ lastDraw.shapes = lastDraw.generated
        /\ lastDraw.dppAssigned = partyData[2].count
        /\ lastDraw.kmtAssigned = partyData[3].count

\* a number above another, a number not below another: false for NaN
above(x, y) == x.k # "nan" /\ y.k # "nan" /\ F64Cmp(x, y) > 0
notBelow(x, y) == x.k # "nan" /\ y.k # "nan" /\ F64Cmp(x, y) >= 0

\* C6 as stated: within each party the ranks are exactly 1..k, they follow
\* (row descending, distance of the angle from PI/2 ascending), the seat of
\* rank i holds the candidate with the i-th highest vote count of the party,
\* or a placeholder when the party has fewer than i candidates, and no
\* candidate holds two seats.  The code violates it for a file on which the
\* comparator of data.sort is not consistent.
C6_RankBinding ==
    \A e \in drawnSvgs :
        LET G == domSvgs[e].seatGroups
            cands == lastDraw.candidates
            dist == Array([k \in 1..Len(G) |-> distToCenter(G[k])], Len(G))
        IN  /\ \A p \in 1..Len(partyData) :
                  LET S == { k \in 1..Len(G) : G[k].party = partyData[p].id }
                      C == { c \in 1..Len(cands) : cands[c].partyId = partyData[p].id }
                  IN  /\ { G[k].rank : k \in S } = 1..Cardinality(S)
                      /\ \A a \in S : \A b \in S :
                             G[a].rank < G[b].rank =>
                                 \/ G[a].row > G[b].row
                                 \/ /\ G[a].row = G[b].row
                                    /\ F64Le(dist[a], dist[b])
                      /\ \A k \in S :
                             IF G[k].rank <= Cardinality(C)
                             THEN /\ ~G[k].placeholder
                                  /\ \E c \in C :
                                       /\ cands[c].name = G[k].candidateName
                                       /\ cands[c].votes = G[k].votes
                                       /\ Cardinality({ d \in C :
                                              above(cands[d].votes, cands[c].votes) })
                                              < G[k].rank
                                       /\ Cardinality({ d \in C :
                                              notBelow(cands[d].votes, cands[c].votes) })
                                              >= G[k].rank
                             ELSE G[k].placeholder
            /\ \A a \in 1..Len(G) : \A b \in 1..Len(G) :
                   (a # b /\ ~G[a].placeholder /\ ~G[b].placeholder)
                       => G[a].candidateName # G[b].candidateName

\* C7 (as claimed): with zero candidate records the draw raises no error and
\* produces no seat shape.
C7_EmptyResult ==
    (lastDraw.done /\ Len(lastDraw.candidates) = 0) =>
        ~lastDraw.error /\ lastDraw.shapes = 0

\* C7 (amended): with zero candidate records a draw raises no error while the
\* view is mounted, and it draws one shape for every generated seat, all 79 in
\* a container of non-zero size, each with a placeholder name and zero votes.
C7_EmptyDrawsPlaceholders ==
    (lastDraw.done /\ Len(lastDraw.candidates) = 0) =>
        /\ lastDraw.error => phase = "unmounted"
        /\ ~lastDraw.error => lastDraw.shapes = lastDraw.generated
        /\ \A e \in drawnSvgs :
               LET G == domSvgs[e].seatGroups
               IN  /\ Len(G) = lastDraw.shapes
                   /\ (domSvgs[e].width > 0 /\ domSvgs[e].height > 0)
                          => Len(G) = totalSeatsOf(partyData)
                   /\ \A k \in 1..Len(G) :
                          /\ G[k].placeholder
                          /\ G[k].votes = F64Zero
                          /\ G[k].candidateName = G[k].rank

\* C7 witness: a draw with no candidate records in a container of non-zero
\* size, whose SVG holds 79 seat shapes.
C7_Witness ==
    \E e \in drawnSvgs :
        /\ Len(lastDraw.candidates) = 0
        /\ domSvgs[e].width > 0
        /\ Len(domSvgs[e].seatGroups) = 79

(***************************************************************************)
(* drawHexGridOnly: the grid layout (part_000, lines 553-698).             *)
(*                                                                         *)
(* A feature carries properties.grid_x and properties.grid_y as JS numbers;*)
(* NaN stands for every value Number.isFinite rejects (missing, null, a    *)
(* string, NaN, an infinity).  Finite coordinates are the integers of the  *)
(* lattice the data format declares.  cellSize, the offsets and the rects' *)
(* x, y, width and height are the doubles the code computes.               *)
(***************************************************************************)
NumberIsFinite(x) == ~x.nan

\* line 566-570: the features whose grid_x and grid_y are both finite
gridsWithXY(features) ==
    SelectSeq(features, LAMBDA feature :
        NumberIsFinite(feature.grid_x) /\ NumberIsFinite(feature.grid_y))

\* d3.min / d3.max over a non-empty array of finite numbers (lines 581-584)
d3min(values) ==
    LET n == Len(values)
    IN  values[CHOOSE i \in 1..n : \A j \in 1..n : values[i] <= values[j]]

d3max(values) ==
    LET n == Len(values)
    IN  values[CHOOSE i \in 1..n : \A j \in 1..n : values[i] >= values[j]]

MathMax(a, b) == IF a >= b THEN a ELSE b

\* line 586-589: (svg ? +svg.attr(...) : null) || container side, where
\* 0, NaN and null are falsy
svgSideOf(svgAttr, containerSide) ==
    IF svgAttr = Null \/ svgAttr.nan \/ svgAttr.v = 0
    THEN containerSide
    ELSE svgAttr

\* line 591-596
invalidSvgSize(svgWidth, svgHeight) ==
    \/ ~NumberIsFinite(svgWidth)
    \/ ~NumberIsFinite(svgHeight)
    \/ svgWidth.v = 0
    \/ svgHeight.v = 0

\* line 602
padding == 40

availableSpanOnePadding(side) == MathMax(side - padding, 0)

\* line 603-604: Math.max(svgWidth - padding * 2, 0)
availableSpan(side) == MathMax(side - padding * 2, 0)

\* line 606-607: Math.max(maxX - minX + 1, 1)
rangeOf(minV, maxV) == MathMax(maxV - minV + 1, 1)

cellSizeLargest(availableWidth, availableHeight, rangeX, rangeY) ==
    IF F64Le(F64Div(F64OfInt(availableWidth), F64OfInt(rangeX)),
             F64Div(F64OfInt(availableHeight), F64OfInt(rangeY)))
    THEN F64Div(F64OfInt(availableHeight), F64OfInt(rangeY))
    ELSE F64Div(F64OfInt(availableWidth), F64OfInt(rangeX))

\* line 609: Math.min(availableWidth / rangeX, availableHeight / rangeY)
cellSizeOf(availableWidth, availableHeight, rangeX, rangeY) ==
    F64Min(F64Div(F64OfInt(availableWidth), F64OfInt(rangeX)),
           F64Div(F64OfInt(availableHeight), F64OfInt(rangeY)))

\* line 611: !Number.isFinite(cellSize) || cellSize <= 0
invalidCellSize(cellSize) == cellSize.k # "num" \/ cellSize.s = 1

\* line 617-621: (svgWidth - cellSize * range) / 2
offsetOf(svgSide, cellSize, range) ==
    F64Div(F64Sub(F64OfInt(svgSide), F64Mul(cellSize, F64OfInt(range))),
           F64OfInt(2))

\* line 640: offsetX + (grid_x - minX) * cellSize
cellX(layout, grid_x) ==
    F64Add(layout.offsetX,
           F64Mul(F64OfInt(grid_x - layout.minX), layout.cellSize))

\* line 641: offsetY + (maxY - grid_y) * cellSize
cellY(layout, grid_y) ==
    F64Add(layout.offsetY,
           F64Mul(F64OfInt(layout.maxY - grid_y), layout.cellSize))

\* line 635-643: one rect per feature of gridsWithXY; the .hex-grid layer
\* was emptied at line 563, so the keyed join enters every datum
hexCellsOf(grids, layout) ==
    Array([i \in 1..Len(grids) |->
             [grid_x |-> grids[i].grid_x.v,
              grid_y |-> grids[i].grid_y.v,
              x      |-> cellX(layout, grids[i].grid_x.v),
              y      |-> cellY(layout, grids[i].grid_y.v),
              width  |-> layout.cellSize,
              height |-> layout.cellSize]], Len(grids))

\* lines 623-650: the layout is published and the rects are drawn
publishLayout(grids, layout) ==
    [outcome |-> "drawn", gridLayoutConfig |-> layout,
     hexCells |-> hexCellsOf(grids, layout)]

\* lines 611-621: the cellSize test and the offsets
geometryOfCellSize(svgWidth, svgHeight, rangeX, rangeY, cellSize) ==
    IF invalidCellSize(cellSize)
    THEN [valid |-> FALSE]
    ELSE [valid |-> TRUE, cellSize |-> cellSize,
          offsetX |-> offsetOf(svgWidth, cellSize, rangeX),
          offsetY |-> offsetOf(svgHeight, cellSize, rangeY)]

\* lines 602-621: cellSize and the offsets of a viewport and two ranges
gridGeometry(svgWidth, svgHeight, rangeX, rangeY) ==
    geometryOfCellSize(svgWidth, svgHeight, rangeX, rangeY,
        cellSizeOf(availableSpan(svgWidth), availableSpan(svgHeight),
                   rangeX, rangeY))

\* gridGeometry for the viewports and ranges of SpecLayout, computed once
gridGeometries ==
    Array([w \in 1..MaxViewportSteps |->
      Array([h \in 1..MaxViewportSteps |->
        Array([rangeX \in 1..(MaxGrid + 2) |->
          Array([rangeY \in 1..(MaxGrid + 2) |->
                   gridGeometry(50 * w, 50 * h, rangeX, rangeY)],
                MaxGrid + 2)], MaxGrid + 2)],
        MaxViewportSteps)], MaxViewportSteps)

computedOnce(side) == side % 50 = 0 /\ (side \div 50) \in 1..MaxViewportSteps

geometryOf(svgWidth, svgHeight, rangeX, rangeY) ==
    IF /\ computedOnce(svgWidth) /\ computedOnce(svgHeight)
       /\ rangeX <= MaxGrid + 2 /\ rangeY <= MaxGrid + 2
    THEN gridGeometries[svgWidth \div 50][svgHeight \div 50][rangeX][rangeY]
    ELSE gridGeometry(svgWidth, svgHeight, rangeX, rangeY)

\* lines 611-631: a call with an invalid cellSize returns, any other
\* assigns gridLayoutConfig
layoutOfGeometry(grids, minX, maxX, minY, maxY, geometry) ==
    IF ~geometry.valid
    THEN [outcome |-> "invalidCellSize", gridLayoutConfig |-> Null,
          hexCells |-> <<>>]
    ELSE publishLayout(grids,
             [minX |-> minX, maxX |-> maxX, minY |-> minY, maxY |-> maxY,
              cellSize |-> geometry.cellSize,
              offsetX |-> geometry.offsetX,
              offsetY |-> geometry.offsetY])

\* lines 602-609: the available size, the ranges and cellSize
layoutOfExtent(grids, svgWidth, svgHeight, minX, maxX, minY, maxY) ==
    layoutOfGeometry(grids, minX, maxX, minY, maxY,
        geometryOf(svgWidth, svgHeight, rangeOf(minX, maxX), rangeOf(minY, maxY)))

\* lines 578-584: the extent of the finite coordinates
layoutOfValues(grids, svgWidth, svgHeight, gridXValues, gridYValues) ==
    layoutOfExtent(grids, svgWidth, svgHeight,
                   d3min(gridXValues), d3max(gridXValues),
                   d3min(gridYValues), d3max(gridYValues))

\* lines 566-650: what one call leaves in gridLayoutConfig and draws
hexGridLayout(features, svgWidth, svgHeight) ==
    LET grids == gridsWithXY(features)
    IN  IF Len(grids) = 0
        THEN [outcome |-> "noCells", gridLayoutConfig |-> Null, hexCells |-> <<>>]
        ELSE IF invalidSvgSize(svgWidth, svgHeight)
        THEN [outcome |-> "invalidSize", gridLayoutConfig |-> Null, hexCells |-> <<>>]
        ELSE layoutOfValues(grids, svgWidth.v, svgHeight.v,
                 Array([i \in 1..Len(grids) |-> grids[i].grid_x.v], Len(grids)),
                 Array([i \in 1..Len(grids) |-> grids[i].grid_y.v], Len(grids)))

(***************************************************************************)
(* SpecLayout: the layout of one drawHexGridOnly call over bounded feature *)
(* lists and viewports.                                                    *)
(***************************************************************************)
GridCoords == (-1)..MaxGrid

feature(gx, gy) == [grid_x |-> Num(gx), grid_y |-> Num(gy)]

\* the features of the lattice, a feature without a finite grid_x and one
\* without a finite grid_y
Features ==
    { feature(gx, gy) : gx \in GridCoords, gy \in GridCoords }
        \cup {[grid_x |-> NaN, grid_y |-> Num(0)],
              [grid_x |-> Num(0), grid_y |-> NaN]}
FeatureLists == UNION { [1..n -> Features] : n \in 0..MaxFeatures }

\* viewport sides in steps of 50 px, and a side that is not finite
ViewportSides == { Num(50 * k) : k \in 0..MaxViewportSteps } \cup {NaN}

\* the four-cell square in a 500 x 500 viewport
squareOfFour ==
    [features |-> <<feature(0, 0), feature(1, 0), feature(0, 1), feature(1, 1)>>,
     svgWidth |-> Num(500), svgHeight |-> Num(500)]

\* two cells at the corners of a lattice 7 wide in a 333 x 200 viewport:
\* 253 / 7 * 7 is not 253 in doubles
sevenWide ==
    [features |-> <<feature(0, 0), feature(6, 2)>>,
     svgWidth |-> Num(333), svgHeight |-> Num(200)]

\* three cells in a row in a 150 x 150 viewport: cellSize is 70 / 3
rowOfThree ==
    [features |-> <<feature(-1, 0), feature(0, 0), feature(1, 0)>>,
     svgWidth |-> Num(150), svgHeight |-> Num(150)]

LayoutInputs ==
    [features : FeatureLists, svgWidth : ViewportSides, svgHeight : ViewportSides]
        \cup {squareOfFour, sevenWide, rowOfThree}

InitLayout ==
    /\ layoutArgs \in LayoutInputs
    /\ layoutResult = [done |-> FALSE]
    /\ GenIdle
    /\ FillIdle
    /\ ViewIdle
    /\ MapIdle
    /\ CallIdle
    /\ StoreIdle
    /\ DebounceIdle
    /\ ChartIdle
    /\ RetryIdle

ComputeLayout ==
    /\ layoutArgs \in LayoutInputs
    /\ ~layoutResult.done
    /\ layoutResult' =
           [done |-> TRUE,
            layout |-> hexGridLayout(layoutArgs.features, layoutArgs.svgWidth,
                                     layoutArgs.svgHeight)]
    /\ UNCHANGED <<layoutArgs, genVars, fillVars, viewVars, mapVars,
                   callVars, storeVars, debounceVars, chartVars, retryVars>>

NextLayout == ComputeLayout

SpecLayout == InitLayout /\ [][NextLayout]_vars

(***************************************************************************)
(* The map component.  Its functions are operators on the record m of the  *)
(* component's variables; an action reads the variables into m, runs the   *)
(* handler's calls in order and stores the result.                         *)
(***************************************************************************)
mounted == mapPhase = "mounted"

mapState ==
    [mounted |-> mounted, displayMode |-> displayMode,
     countyData |-> countyData, hexData |-> hexData, svg |-> mapSvg, g |-> g,
     projection |-> projection, path |-> path, zoom |-> zoom,
     tooltip |-> tooltip, isMapReady |-> isMapReady,
     gridLayoutConfig |-> gridLayoutConfig, elements |-> mapElements,
     tooltipNodes |-> tooltipNodes, lastHexGridOnly |-> [called |-> FALSE]]

\* an svg element as d3 appends it (lines 513-518, 924-929, 1273-1278), with
\* what is drawn into its g
newSvg(width, height) ==
    [width |-> width, height |-> height, attached |-> TRUE,
     county |-> FALSE, hexGrid |-> "none", hexCells |-> <<>>,
     angleArrows |-> "none"]

appendSvg(m, size) ==
    [m EXCEPT !.elements = Append(@, newSvg(size[1], size[2])),
              !.svg = Len(m.elements) + 1]

\* svg.remove()
removeSvg(m) ==
    IF m.svg = 0 THEN m ELSE [m EXCEPT !.elements[m.svg].attached = FALSE]

\* lines 280-299
createTooltip(m) ==
    IF ~m.mounted
    THEN m
    ELSE [m EXCEPT !.tooltip = TRUE,
                   !.tooltipNodes = (IF @ > 0 THEN @ - 1 ELSE 0) + 1]

\* lines 491-497 and 1258-1264: no container, or a container of size zero
canvasRefused(m, size) == ~m.mounted \/ size[1] = 0 \/ size[2] = 0

\* lines 490-547, when it returns true
createGridCanvas(m, size) ==
    LET cleared == [removeSvg(m) EXCEPT !.projection = FALSE, !.path = FALSE,
                                        !.gridLayoutConfig = Null]
        created == [appendSvg(cleared, size) EXCEPT
                        !.g = Len(m.elements) + 1, !.zoom = TRUE]
    IN  [createTooltip(created) EXCEPT !.isMapReady = TRUE]

\* lines 1257-1330, when it returns true: the old svg is neither removed nor
\* is gridLayoutConfig reset
createMap(m, size) ==
    LET created == [appendSvg(m, size) EXCEPT
                        !.projection = TRUE, !.path = TRUE,
                        !.g = Len(m.elements) + 1, !.zoom = TRUE]
    IN  [createTooltip(created) EXCEPT !.isMapReady = TRUE]

\* lines 452-483
drawCounties(m) ==
    IF m.g = 0 \/ m.countyData = Null
    THEN m
    ELSE [m EXCEPT !.elements[m.g].county = TRUE]

\* lines 1092-1249: the arrows layer, by the way its arrows are placed
drawAngleArrows(m) ==
    IF m.g = 0 \/ m.hexData = Null
    THEN m
    ELSE [m EXCEPT !.elements[m.g].angleArrows =
              IF m.displayMode = "grid" /\ m.gridLayoutConfig # Null
              THEN "gridLayout"
              ELSE IF m.projection /\ m.path THEN "projection" ELSE "empty"]

\* lines 997-1078
drawHexGrid(m) ==
    IF m.g = 0 \/ m.hexData = Null \/ ~m.path
    THEN m
    ELSE drawAngleArrows([m EXCEPT !.elements[m.g].hexGrid = "path",
                                   !.elements[m.g].hexCells = <<>>])

failedCallKeepsLayout(m, call) == [m EXCEPT !.lastHexGridOnly = call]

\* lines 574-575, 598-599, 613-614 and 696: gridLayoutConfig = null
failedCall(m, call) ==
    [m EXCEPT !.gridLayoutConfig = Null, !.lastHexGridOnly = call]

\* lines 553-698
drawHexGridOnly(m, size) ==
    IF m.g = 0 \/ m.hexData = Null
    THEN [m EXCEPT !.lastHexGridOnly = [called |-> TRUE, outcome |-> "notReady"]]
    ELSE
    LET cleared == [m EXCEPT !.elements[m.g].hexGrid = "none",
                             !.elements[m.g].hexCells = <<>>,
                             !.elements[m.g].county = FALSE]
        features == m.hexData.features
        hasGrids == Len(gridsWithXY(features)) > 0
        attrWidth == IF m.svg = 0 THEN Null ELSE Num(m.elements[m.svg].width)
        attrHeight == IF m.svg = 0 THEN Null ELSE Num(m.elements[m.svg].height)
        svgWidth == svgSideOf(attrWidth, Num(size[1]))
        svgHeight == svgSideOf(attrHeight, Num(size[2]))
        \* the fallback reads mapContainer.value, which is null when unmounted
        threw == /\ hasGrids
                 /\ ~m.mounted
                 /\ svgWidth # attrWidth \/ svgHeight # attrHeight
        layout == hexGridLayout(features, svgWidth, svgHeight)
        call(outcome) ==
            [called |-> TRUE, outcome |-> outcome, features |-> features,
             svgWidth |-> svgWidth, svgHeight |-> svgHeight]
    IN  IF threw
        THEN failedCall(cleared, [called |-> TRUE, outcome |-> "threw"])
        ELSE IF layout.outcome # "drawn"
        THEN failedCall(cleared, call(layout.outcome))
        ELSE drawAngleArrows(
                 [cleared EXCEPT !.gridLayoutConfig = layout.gridLayoutConfig,
                                 !.elements[m.g].hexGrid = "rect",
                                 !.elements[m.g].hexCells = layout.hexCells,
                                 !.lastHexGridOnly = call("drawn")])

(***************************************************************************)
(* The async calls of the map component.  A task is one call of initMap or *)
(* toggleDisplayMode that waits: for a fetch of loadCountyData or          *)
(* loadHexData ("pending"), or for the 100 ms timer of a retry.            *)
(***************************************************************************)
\* line 1338
maxAttempts == 20

Districts == [features |-> "districts"]

task(kind, branch, county, hex) ==
    [kind |-> kind, branch |-> branch, at |-> "await", county |-> county,
     hex |-> hex, attempts |-> 0]

finished(t) == [t EXCEPT !.at = "done"]

\* tryCreateMap (lines 1358-1377) and tryCreateGrid (lines 1392-1408)
tryCreate(m, size, t) ==
    IF t.attempts >= maxAttempts
    THEN [m |-> m, task |-> finished(t)]
    ELSE IF canvasRefused(m, size)
    THEN [m |-> m, task |-> [t EXCEPT !.attempts = @ + 1, !.at = "timer"]]
    ELSE [m |-> IF t.branch = "map"
                THEN drawHexGrid(drawCounties(createMap(m, size)))
                ELSE drawHexGridOnly(createMap(m, size), size),
          task |-> finished([t EXCEPT !.attempts = @ + 1])]

\* initMap from the end of its await (lines 1346-1379 and 1385-1410)
initMapResumes(m, size, t) ==
    IF t.county = "fail" \/ t.hex = "fail"
    THEN [m |-> m, task |-> finished(t)]
    ELSE tryCreate(m, size, t)

\* toggleDisplayMode('map') from line 905 to its end
finishToggleMap(m, size) ==
    LET dropped == IF m.svg # 0 /\ ~m.projection
                   THEN [removeSvg(m) EXCEPT !.svg = 0]
                   ELSE m
        created == [appendSvg(removeSvg(dropped), size) EXCEPT
                        !.projection = TRUE, !.path = TRUE,
                        !.g = Len(m.elements) + 1, !.zoom = TRUE]
    IN  IF ~dropped.projection \/ ~dropped.path
        THEN IF ~m.mounted
             THEN \* mapContainer.value is null: line 913 throws
                  dropped
             ELSE IF size[1] > 0 /\ size[2] > 0
             THEN drawHexGrid(drawCounties(
                      [createTooltip(created) EXCEPT !.isMapReady = TRUE]))
             ELSE drawHexGrid(drawCounties(dropped))
        ELSE drawHexGrid(drawCounties(dropped))

\* toggleDisplayMode('grid') from line 984 to its end
finishToggleGrid(m, size) ==
    IF canvasRefused(m, size)
    THEN m
    ELSE drawHexGridOnly(createGridCanvas(m, size), size)

\* toggleDisplayMode('map') from line 901
toggleMapAfterCounty(m, size, t) ==
    IF m.hexData = Null
    THEN [m |-> m, task |-> [t EXCEPT !.hex = "pending"]]
    ELSE [m |-> finishToggleMap(m, size), task |-> finished(t)]

\* toggleDisplayMode up to its first await, or to its end (lines 891-992)
toggleDisplayModeCalled(m, size, mode) ==
    IF mode = "map"
    THEN LET m1 == [m EXCEPT !.displayMode = mode, !.gridLayoutConfig = Null]
         IN  IF m1.countyData = Null
             THEN [m |-> m1, task |-> task("toggle", "map", "pending", "none")]
             ELSE toggleMapAfterCounty(m1, size,
                                       task("toggle", "map", "none", "none"))
    ELSE LET m1 == [m EXCEPT !.displayMode = mode, !.countyData = Null,
                             !.gridLayoutConfig = Null]
         IN  IF m1.hexData = Null
             THEN [m |-> m1, task |-> task("toggle", "grid", "none", "pending")]
             ELSE [m |-> finishToggleGrid(m1, size),
                   task |-> finished(task("toggle", "grid", "none", "none"))]

\* a call from the end of loadCountyData (lines 250-275)
afterCounty(m, size, t, ok) ==
    LET m1 == IF ok THEN [m EXCEPT !.countyData = Districts] ELSE m
        t1 == [t EXCEPT !.county = IF ok THEN "ok" ELSE "fail"]
    IN  IF t.kind = "toggle"
        THEN toggleMapAfterCounty(m1, size, t1)
        ELSE IF t1.hex = "pending"
        THEN [m |-> m1, task |-> t1]
        ELSE initMapResumes(m1, size, t1)

\* a call from the end of loadHexData (lines 304-329)
afterHex(m, size, t, outcome) ==
    LET m1 == IF outcome.ok
              THEN [m EXCEPT !.hexData = [features |-> outcome.features]]
              ELSE m
        t1 == [t EXCEPT !.hex = IF outcome.ok THEN "ok" ELSE "fail"]
    IN  IF t.kind = "toggle"
        THEN [m |-> IF t.branch = "map"
                    THEN finishToggleMap(m1, size)
                    ELSE finishToggleGrid(m1, size),
              task |-> finished(t1)]
        ELSE IF t1.county = "pending"
        THEN [m |-> m1, task |-> t1]
        ELSE initMapResumes(m1, size, t1)

\* the calls that wait for a fetch, after call k went on as t
tasksWith(k, t) ==
    LET all == [mapTasks EXCEPT ![k] = t]
    IN  SelectSeq(all, LAMBDA x : x.at = "await")

tasksAnd(t) == IF t.at = "await" THEN Append(mapTasks, t) ELSE mapTasks

\* setTimeout(tryCreate..., 100): timers of one delay fire in the order set
timersAnd(timers, t) == IF t.at = "timer" THEN Append(timers, t) ELSE timers

\* initMap up to its await (lines 1336-1344 and 1380-1383)
initMapCalled ==
    mapTasks' = Append(mapTasks,
                       IF displayMode = "map"
                       THEN task("initMap", "map", "pending", "pending")
                       ELSE task("initMap", "grid", "none", "pending"))

\* a removed svg element that neither svg nor g refers to is garbage; the
\* elements that remain are numbered in document order
kept(elements, svgRef, gRef) ==
    { i \in 1..Len(elements) : elements[i].attached \/ i = svgRef \/ i = gRef }

renumbered(elements, svgRef, gRef, ref) ==
    Cardinality({ i \in kept(elements, svgRef, gRef) : i <= ref })

collected(elements, svgRef, gRef) ==
    LET keep == kept(elements, svgRef, gRef)
        n == Cardinality(keep)
    IN  Array([k \in 1..n |->
                 elements[CHOOSE i \in keep :
                              renumbered(elements, svgRef, gRef, i) = k]], n)

SetMap(m) ==
    /\ displayMode' = m.displayMode
    /\ countyData' = m.countyData
    /\ hexData' = m.hexData
    /\ mapSvg' = renumbered(m.elements, m.svg, m.g, m.svg)
    /\ g' = renumbered(m.elements, m.svg, m.g, m.g)
    /\ projection' = m.projection
    /\ path' = m.path
    /\ zoom' = m.zoom
    /\ tooltip' = m.tooltip
    /\ isMapReady' = m.isMapReady
    /\ gridLayoutConfig' = m.gridLayoutConfig
    /\ mapElements' = collected(m.elements, m.svg, m.g)
    /\ tooltipNodes' = m.tooltipNodes
    /\ lastHexGridOnly' = m.lastHexGridOnly

componentVars == <<displayMode, countyData, hexData, mapSvg, g, projection,
                   path, zoom, tooltip, isMapReady, gridLayoutConfig,
                   mapElements, tooltipNodes>>

\* the step does not call drawHexGridOnly
noHexGridOnly == lastHexGridOnly' = [called |-> FALSE]

(***************************************************************************)
(* SpecMap: the map component from setup to unmount.                       *)
(***************************************************************************)
\* the grid GeoJSON file of the deployment: a strip with a gap and a feature
\* without grid_x, or no feature with a finite pair at all
stripWithGap ==
    <<feature(-1, 0), feature(1, 0), [grid_x |-> NaN, grid_y |-> Num(0)]>>
noGridFeatures == <<[grid_x |-> NaN, grid_y |-> Num(0)]>>
HexPayloads == {stripWithGap, noGridFeatures}
\* a fetch of the file fails or delivers it
HexOutcomes ==
    {[ok |-> FALSE, features |-> <<>>], [ok |-> TRUE, features |-> hexFile]}

\* sizes of the container: none before it is laid out, too narrow for the
\* padding, and one that fits
MapSizes == {<<0, 0>>, <<80, 200>>, <<200, 100>>}

\* the sizes a resize gives the container
LaidOutSizes == MapSizes \ {<<0, 0>>}

InitMap ==
    /\ MapCreated
    /\ mapContainerSize \in MapSizes
    /\ hexFile \in HexPayloads
    /\ GenIdle
    /\ FillIdle
    /\ ViewIdle
    /\ LayoutIdle
    /\ CallIdle
    /\ StoreIdle
    /\ DebounceIdle
    /\ ChartIdle
    /\ RetryIdle

\* the calls of initMap and toggleDisplayMode that have not ended
pendingCalls ==
    Len(mapTasks) + Len(retryTimers) + (IF mapResizeTimer = "pending" THEN 1 ELSE 0)

\* onMounted (lines 1428-1435)
MapMount ==
    /\ mapPhase = "created"
    /\ mapPhase' = "mounted"
    /\ mapTickPending' = TRUE
    /\ mapListening' = TRUE
    /\ UNCHANGED <<mapContainerSize, mapResizeTimer, mapEvents,
                   mapTasks, retryTimers, componentVars>>
    /\ noHexGridOnly
    /\ UNCHANGED <<hexFile, genVars, fillVars, viewVars, layoutVars,
                   callVars, storeVars, debounceVars, chartVars, retryVars>>

\* the callback of nextTick (line 1430)
MapNextTick ==
    /\ mapTickPending
    /\ mapTickPending' = FALSE
    /\ initMapCalled
    /\ UNCHANGED <<mapPhase, mapContainerSize, mapListening, mapResizeTimer,
                   mapEvents, retryTimers, componentVars>>
    /\ noHexGridOnly
    /\ UNCHANGED <<hexFile, genVars, fillVars, viewVars, layoutVars,
                   callVars, storeVars, debounceVars, chartVars, retryVars>>

\* the window is resized and the container takes a new size: handleResize.
\* An event is handled after the nextTick callback, which is a microtask.
MapResizeEvent(size) ==
    /\ mapListening
    /\ ~mapTickPending
    /\ mapEvents < MaxMapEvents
    /\ pendingCalls < MaxPending
    /\ mapEvents' = mapEvents + 1
    /\ mapContainerSize' = size
    /\ mapResizeTimer' = "pending"
    /\ UNCHANGED <<mapPhase, mapListening, mapTickPending, mapTasks,
                   retryTimers, componentVars>>
    /\ noHexGridOnly
    /\ UNCHANGED <<hexFile, genVars, fillVars, viewVars, layoutVars,
                   callVars, storeVars, debounceVars, chartVars, retryVars>>

\* the timeout of handleResize, 300 ms after the last resize event
MapResizeTimerFires ==
    /\ mapResizeTimer = "pending"
    /\ mapResizeTimer' = "none"
    /\ initMapCalled
    /\ UNCHANGED <<mapPhase, mapContainerSize, mapListening, mapTickPending,
                   mapEvents, retryTimers, componentVars>>
    /\ noHexGridOnly
    /\ UNCHANGED <<hexFile, genVars, fillVars, viewVars, layoutVars,
                   callVars, storeVars, debounceVars, chartVars, retryVars>>

\* the user picks a display mode: toggleDisplayMode(mode)
ToggleDisplayMode(mode) ==
    /\ mounted
    /\ ~mapTickPending
    /\ mapEvents < MaxMapEvents
    /\ pendingCalls < MaxPending
    /\ mapEvents' = mapEvents + 1
    /\ \E r \in {toggleDisplayModeCalled(mapState, mapContainerSize, mode)} :
           SetMap(r.m) /\ mapTasks' = tasksAnd(r.task)
    /\ UNCHANGED <<mapPhase, mapContainerSize, mapListening, mapTickPending,
                   mapResizeTimer, retryTimers>>
    /\ UNCHANGED <<hexFile, genVars, fillVars, viewVars, layoutVars,
                   callVars, storeVars, debounceVars, chartVars, retryVars>>

\* the fetch of loadCountyData ends for task k
LoadCountyReturns(k, ok) ==
    /\ k \in 1..Len(mapTasks)
    /\ mapTasks[k].at = "await"
    /\ mapTasks[k].county = "pending"
    /\ \E r \in {afterCounty(mapState, mapContainerSize, mapTasks[k], ok)} :
           /\ SetMap(r.m)
           /\ mapTasks' = tasksWith(k, r.task)
           /\ retryTimers' = timersAnd(retryTimers, r.task)
    /\ UNCHANGED <<mapPhase, mapContainerSize, mapListening, mapTickPending,
                   mapResizeTimer, mapEvents>>
    /\ UNCHANGED <<hexFile, genVars, fillVars, viewVars, layoutVars,
                   callVars, storeVars, debounceVars, chartVars, retryVars>>

\* the fetch of loadHexData ends for task k
LoadHexReturns(k, outcome) ==
    /\ k \in 1..Len(mapTasks)
    /\ mapTasks[k].at = "await"
    /\ mapTasks[k].hex = "pending"
    /\ \E r \in {afterHex(mapState, mapContainerSize, mapTasks[k], outcome)} :
           /\ SetMap(r.m)
           /\ mapTasks' = tasksWith(k, r.task)
           /\ retryTimers' = timersAnd(retryTimers, r.task)
    /\ UNCHANGED <<mapPhase, mapContainerSize, mapListening, mapTickPending,
                   mapResizeTimer, mapEvents>>
    /\ UNCHANGED <<hexFile, genVars, fillVars, viewVars, layoutVars,
                   callVars, storeVars, debounceVars, chartVars, retryVars>>

\* the oldest 100 ms retry timer fires (lines 1375 and 1406)
RetryTimerFires ==
    /\ Len(retryTimers) > 0
    /\ \E r \in {tryCreate(mapState, mapContainerSize, Head(retryTimers))} :
           /\ SetMap(r.m)
           /\ retryTimers' = timersAnd(Tail(retryTimers), r.task)
    /\ UNCHANGED <<mapPhase, mapContainerSize, mapListening, mapTickPending,
                   mapResizeTimer, mapEvents, mapTasks>>
    /\ UNCHANGED <<hexFile, genVars, fillVars, viewVars, layoutVars,
                   callVars, storeVars, debounceVars, chartVars, retryVars>>

\* onUnmounted (lines 1438-1463)
MapUnmount ==
    /\ mounted
    /\ mapPhase' = "unmounted"
    /\ mapResizeTimer' = "none"
    /\ mapListening' = FALSE
    /\ mapElements' = collected(removeSvg(mapState).elements, 0, 0)
    /\ mapSvg' = 0
    /\ tooltipNodes' = IF tooltip THEN tooltipNodes - 1 ELSE tooltipNodes
    /\ tooltip' = FALSE
    /\ projection' = FALSE
    /\ path' = FALSE
    /\ zoom' = FALSE
    /\ g' = 0
    /\ isMapReady' = FALSE
    /\ UNCHANGED <<mapContainerSize, mapTickPending, mapEvents,
                   displayMode, countyData, hexData, gridLayoutConfig,
                   mapTasks, retryTimers>>
    /\ noHexGridOnly
    /\ UNCHANGED <<hexFile, genVars, fillVars, viewVars, layoutVars,
                   callVars, storeVars, debounceVars, chartVars, retryVars>>

NextMap ==
    \/ MapMount
    \/ MapNextTick
    \/ \E size \in LaidOutSizes : MapResizeEvent(size)
    \/ MapResizeTimerFires
    \/ \E mode \in {"map", "grid"} : ToggleDisplayMode(mode)
    \/ \E k \in 1..MaxPending, ok \in BOOLEAN :
           LoadCountyReturns(k, ok)
    \/ \E k \in 1..MaxPending, outcome \in HexOutcomes :
           LoadHexReturns(k, outcome)
    \/ RetryTimerFires
    \/ MapUnmount

SpecMap == InitMap /\ [][NextMap]_vars

\* the layout function on its own inputs together with the component
SpecHexGridOnly == (InitLayout \/ InitMap) /\ [][NextLayout \/ NextMap]_vars

published == layoutResult.done /\ layoutResult.layout.gridLayoutConfig # Null

\* the finite lattice points of the input, taken straight from the arguments
finitePoints ==
    { <<layoutArgs.features[i].grid_x.v, layoutArgs.features[i].grid_y.v>> :
        i \in { j \in 1..Len(layoutArgs.features) :
                  /\ ~layoutArgs.features[j].grid_x.nan
                  /\ ~layoutArgs.features[j].grid_y.nan } }

least(S) == CHOOSE v \in S : \A w \in S : v <= w
greatest(S) == CHOOSE v \in S : \A w \in S : v >= w

\* C8: a published layout has cellSize = min((W - 80) / rangeX,
\* (H - 80) / rangeY) with rangeX = maxX - minX + 1 and rangeY = maxY - minY + 1
\* over the cells with finite coordinates, offsetX = (W - cellSize * rangeX) / 2
\* and offsetY = (H - cellSize * rangeY) / 2; for the four-cell square in a
\* 500 x 500 viewport 2 * cellSize <= 420 and offsetX = offsetY.  The
\* quotients, products and differences are those of doubles.
C8_LayoutFormula ==
    published =>
        LET cfg == layoutResult.layout.gridLayoutConfig
            W == layoutArgs.svgWidth.v
            H == layoutArgs.svgHeight.v
            xs == { pt[1] : pt \in finitePoints }
            ys == { pt[2] : pt \in finitePoints }
            rangeX == greatest(xs) - least(xs) + 1
            rangeY == greatest(ys) - least(ys) + 1
            byWidth == F64Div(F64OfInt(W - 2 * 40), F64OfInt(rangeX))
            byHeight == F64Div(F64OfInt(H - 2 * 40), F64OfInt(rangeY))
        IN  /\ finitePoints # {}
            /\ cfg.minX = least(xs) /\ cfg.maxX = greatest(xs)
            /\ cfg.minY = least(ys) /\ cfg.maxY = greatest(ys)
            /\ F64Le(cfg.cellSize, byWidth) /\ F64Le(cfg.cellSize, byHeight)
            /\ F64Eq(cfg.cellSize, byWidth) \/ F64Eq(cfg.cellSize, byHeight)
            /\ F64Eq(F64Mul(cfg.offsetX, F64OfInt(2)),
                     F64Sub(F64OfInt(W), F64Mul(cfg.cellSize, F64OfInt(rangeX))))
            /\ F64Eq(F64Mul(cfg.offsetY, F64OfInt(2)),
                     F64Sub(F64OfInt(H), F64Mul(cfg.cellSize, F64OfInt(rangeY))))
            /\ layoutArgs = squareOfFour =>
                   /\ F64Le(F64Mul(cfg.cellSize, F64OfInt(2)), F64OfInt(420))
                   /\ F64Eq(cfg.offsetX, cfg.offsetY)

C8_Witness ==
    /\ published
    /\ layoutArgs = squareOfFour
    /\ F64Eq(layoutResult.layout.gridLayoutConfig.cellSize, F64OfInt(210))

\* the conditions under which a call fails, in terms of what it is given
failsOn(features, svgWidth, svgHeight) ==
    \/ \A i \in 1..Len(features) :
           features[i].grid_x.nan \/ features[i].grid_y.nan
    \/ svgWidth.nan \/ svgHeight.nan
    \/ svgWidth.v = 0 \/ svgHeight.v = 0
    \/ svgWidth.v - 2 * 40 <= 0 \/ svgHeight.v - 2 * 40 <= 0

positiveCellSize(layout) == layout.cellSize.k = "num" /\ layout.cellSize.s = 0

\* C9: drawHexGridOnly leaves gridLayoutConfig null whenever no feature has
\* finite grid_x and grid_y, the viewport width or height is zero or not
\* finite, or the computed cellSize is not finite or <= 0; in every reachable
\* state a non-null gridLayoutConfig has a finite cellSize > 0, and after a
\* call that failed gridLayoutConfig is null, whatever an earlier call left.
C9_FailureLeavesNull ==
    /\ layoutResult.done =>
           /\ failsOn(layoutArgs.features, layoutArgs.svgWidth,
                      layoutArgs.svgHeight)
                  => layoutResult.layout.gridLayoutConfig = Null
           /\ layoutResult.layout.gridLayoutConfig # Null
                  => positiveCellSize(layoutResult.layout.gridLayoutConfig)
    /\ gridLayoutConfig # Null => positiveCellSize(gridLayoutConfig)
    /\ lastHexGridOnly.called =>
           /\ lastHexGridOnly.outcome # "drawn" => gridLayoutConfig = Null
           /\ lastHexGridOnly.outcome \notin {"notReady", "threw"} =>
                  (failsOn(lastHexGridOnly.features, lastHexGridOnly.svgWidth,
                           lastHexGridOnly.svgHeight)
                       => lastHexGridOnly.outcome # "drawn")

\* a call fails on a viewport too narrow for the padding while the svg of an
\* earlier, successful call is still in the container
C9_Witness ==
    /\ lastHexGridOnly.called
    /\ lastHexGridOnly.outcome = "invalidCellSize"
    /\ gridLayoutConfig = Null
    /\ \E i \in 1..Len(mapElements) :
           /\ i # g
           /\ mapElements[i].attached
           /\ mapElements[i].hexGrid = "rect"

\* 2^-30 px, about 1e-9 px
roundingSlack == F64Div(F64OfInt(1), F64OfInt(2 ^ 30))

\* for a published layout every cell with finite coordinates is drawn as a
\* square of side cellSize, every square lies inside the viewport inset by
\* 40 px on each side, and two cells with different (grid_x, grid_y) have
\* disjoint interiors, where a <= b is taken as a <= b + slack
squaresInsideWithin(slack) ==
    published =>
        LET cfg == layoutResult.layout.gridLayoutConfig
            cells == layoutResult.layout.hexCells
            n == Len(layoutResult.layout.hexCells)
            left == Array([i \in 1..n |-> F64Add(cells[i].x, slack)], n)
            top == Array([i \in 1..n |-> F64Add(cells[i].y, slack)], n)
            right == Array([i \in 1..n |-> F64Add(cells[i].x, cells[i].width)], n)
            bottom == Array([i \in 1..n |-> F64Add(cells[i].y, cells[i].height)], n)
            rightEdge == F64Add(F64OfInt(layoutArgs.svgWidth.v - 40), slack)
            bottomEdge == F64Add(F64OfInt(layoutArgs.svgHeight.v - 40), slack)
        IN  /\ { <<cells[i].grid_x, cells[i].grid_y>> : i \in 1..n }
                   = finitePoints
            /\ \A i \in 1..n :
                   /\ F64Eq(cells[i].width, cfg.cellSize)
                   /\ F64Eq(cells[i].height, cfg.cellSize)
                   /\ F64Le(F64OfInt(40), left[i])
                   /\ F64Le(F64OfInt(40), top[i])
                   /\ F64Le(right[i], rightEdge)
                   /\ F64Le(bottom[i], bottomEdge)
            /\ \A i, j \in 1..n :
                   <<cells[i].grid_x, cells[i].grid_y>>
                       # <<cells[j].grid_x, cells[j].grid_y>> =>
                       \/ F64Le(right[i], left[j])
                       \/ F64Le(right[j], left[i])
                       \/ F64Le(bottom[i], top[j])
                       \/ F64Le(bottom[j], top[i])

\* C10 as stated: for a published layout every cell with finite coordinates
\* is drawn as a square of side cellSize, every square lies inside the
\* viewport inset by 40 px on each side, and two cells with different
\* (grid_x, grid_y) have disjoint interiors.  The doubles of a lattice 7
\* wide violate it: the first square starts left of 40.
C10_EqualSquaresInside == squaresInsideWithin(F64Zero)

\* C10, amended: for a published layout every cell with finite coordinates
\* is drawn as a square of side cellSize, and up to the rounding of doubles
\* (2^-30 px here) every square lies inside the viewport inset by 40 px on
\* each side and two cells with different (grid_x, grid_y) have disjoint
\* interiors.
C10_SquaresInsideUpToRounding == squaresInsideWithin(roundingSlack)

\* the squares of the lattice 7 wide are drawn: the first starts left of
\* 40 and the last ends right of 293
C10_Witness ==
    /\ published
    /\ layoutArgs = sevenWide
    /\ \E i \in 1..Len(layoutResult.layout.hexCells) :
           F64Lt(layoutResult.layout.hexCells[i].x, F64OfInt(40))
    /\ \E i \in 1..Len(layoutResult.layout.hexCells) :
           F64Lt(F64OfInt(293),
                 F64Add(layoutResult.layout.hexCells[i].x,
                        layoutResult.layout.hexCells[i].width))

(***************************************************************************)
(* drawGridOnly (lines 705-885): the second renderer that places cells     *)
(* from grid_x and grid_y.  Nothing calls it; it is modelled by the layout *)
(* one call computes for the features of dengueData and the svg size.      *)
(***************************************************************************)
\* line 750-756: the features whose grid_x and grid_y are neither null nor
\* undefined
dengueGridsWithXY(features) ==
    SelectSeq(features, LAMBDA d : d.grid_x # Null /\ d.grid_y # Null)

\* line 781
gridPadding == 50

\* line 782-783: svgWidth - 2 * padding, not clamped
gridAvailable(side) == side - 2 * gridPadding

\* line 786-787: maxX - minX + 1
gridRange(minV, maxV) == maxV - minV + 1

\* d3-interpolate's interpolateNumber(a, b) at t: a * (1 - t) + b * t
interpolateNumber(a, b, t) ==
    F64Add(F64Mul(a, F64Sub(F64OfInt(1), t)), F64Mul(b, t))

\* d3.scaleLinear().domain([d0, d1]).range([r0, r1]) applied to v, with
\* d0 < d1: d3-scale normalizes v to (v - d0) / (d1 - d0) and interpolates
\* the range there
scaleLinear(d0, d1, r0, r1, v) ==
    interpolateNumber(r0, r1,
        F64Div(F64Sub(F64OfInt(v), F64OfInt(d0)),
               F64Sub(F64OfInt(d1), F64OfInt(d0))))

\* line 805-808
scaleX(layout, grid_x) ==
    scaleLinear(layout.minX, layout.maxX + 1, layout.offsetX,
                F64Add(layout.offsetX, layout.actualWidth), grid_x)

\* the Y scale with its range reversed
scaleYReversed(layout, grid_y) ==
    scaleLinear(layout.minY, layout.maxY + 1,
                F64Add(layout.offsetY, layout.actualHeight), layout.offsetY,
                grid_y)

\* line 810-813
scaleY(layout, grid_y) ==
    scaleLinear(layout.minY, layout.maxY + 1, layout.offsetY,
                F64Add(layout.offsetY, layout.actualHeight), grid_y)

\* line 828-832: (a.properties.level || 0) - (b.properties.level || 0)
byLevel(a, b) == a.level - b.level

\* line 835-843: one rect per feature of sortedGrids
dengueCellsOf(sortedGrids, layout) ==
    Array([i \in 1..Len(sortedGrids) |->
             [grid_x |-> sortedGrids[i].grid_x.v,
              grid_y |-> sortedGrids[i].grid_y.v,
              level  |-> sortedGrids[i].level,
              x      |-> scaleX(layout, sortedGrids[i].grid_x.v),
              y      |-> scaleY(layout, sortedGrids[i].grid_y.v),
              width  |-> layout.cellSize,
              height |-> layout.cellSize]], Len(sortedGrids))

\* lines 829-843: the sort by level and the rects
drawnGrid(grids, layout) ==
    [outcome |-> "drawn", cellSize |-> layout.cellSize,
     cells |-> dengueCellsOf(StableSort(grids, byLevel), layout)]

\* lines 797-802: the size the cells take and the centering offsets
gridOfSpans(grids, svgWidth, svgHeight, minX, maxX, minY, maxY, cellSize, actualWidth, actualHeight) ==
    drawnGrid(grids,
        [minX |-> minX, maxX |-> maxX, minY |-> minY, maxY |-> maxY,
         cellSize |-> cellSize,
         actualWidth |-> actualWidth,
         actualHeight |-> actualHeight,
         offsetX |-> F64Div(F64Sub(F64OfInt(svgWidth), actualWidth), F64OfInt(2)),
         offsetY |-> F64Div(F64Sub(F64OfInt(svgHeight), actualHeight), F64OfInt(2))])

\* lines 797-798: cellSize * rangeX and cellSize * rangeY
gridOfCellSize(grids, svgWidth, svgHeight, minX, maxX, minY, maxY, cellSize) ==
    gridOfSpans(grids, svgWidth, svgHeight, minX, maxX, minY, maxY, cellSize,
                F64Mul(cellSize, F64OfInt(gridRange(minX, maxX))),
                F64Mul(cellSize, F64OfInt(gridRange(minY, maxY))))

\* lines 782-794: the available size, the ranges and cellSize
gridOfExtent(grids, svgWidth, svgHeight, minX, maxX, minY, maxY) ==
    gridOfCellSize(grids, svgWidth, svgHeight, minX, maxX, minY, maxY,
                   cellSizeOf(gridAvailable(svgWidth), gridAvailable(svgHeight),
                              gridRange(minX, maxX), gridRange(minY, maxY)))

\* lines 765-770: the extent of the coordinates
gridOfValues(grids, svgWidth, svgHeight, gridXValues, gridYValues) ==
    gridOfExtent(grids, svgWidth, svgHeight,
                 d3min(gridXValues), d3max(gridXValues),
                 d3min(gridYValues), d3max(gridYValues))

\* lines 750-843: the rects one call of drawGridOnly appends
gridOnlyLayout(features, svgWidth, svgHeight) ==
    LET grids == dengueGridsWithXY(features)
    IN  IF Len(grids) = 0
        THEN [outcome |-> "noCells", cells |-> <<>>]
        ELSE gridOfValues(grids, svgWidth, svgHeight,
                 Array([i \in 1..Len(grids) |-> grids[i].grid_x.v], Len(grids)),
                 Array([i \in 1..Len(grids) |-> grids[i].grid_y.v], Len(grids)))

(***************************************************************************)
(* SpecGridOnly: one drawGridOnly call over bounded feature lists and svg  *)
(* sizes.  SpecGridRenderers runs either renderer.                         *)
(***************************************************************************)
\* the grid_x and grid_y of a feature: a point of the lattice, or one of
\* the two is null
DengueCoords ==
    { <<Num(gx), Num(gy)>> : gx \in GridCoords, gy \in GridCoords }
        \cup {<<Null, Num(0)>>, <<Num(0), Null>>}

\* the grid_x and grid_y of every feature of a list
DengueLists ==
    UNION { [1..n -> DengueCoords] : n \in 0..MaxFeatures }

\* the features of dengueData with these coordinates; the feature at index
\* i has level i % 2, so that the sort by level moves features
dengueFeatures(coords) ==
    Array([i \in 1..Len(coords) |->
              [grid_x |-> coords[i][1], grid_y |-> coords[i][2],
               level |-> i % 2]], Len(coords))

\* svg sizes narrower than the two paddings, as wide as them, and wider
GridOnlySizes == {<<0, 0>>, <<100, 150>>, <<150, 150>>, <<250, 150>>}

GridOnlyInputs ==
    [fn : {"drawGridOnly"}, coords : DengueLists, svgSize : GridOnlySizes]

InitGridOnly ==
    /\ callArgs \in GridOnlyInputs
    /\ callResult = [done |-> FALSE]
    /\ GenIdle
    /\ FillIdle
    /\ ViewIdle
    /\ LayoutIdle
    /\ MapIdle
    /\ StoreIdle
    /\ DebounceIdle
    /\ ChartIdle
    /\ RetryIdle

DrawGridOnly ==
    /\ callArgs.fn = "drawGridOnly"
    /\ ~callResult.done
    /\ callResult' =
           [done |-> TRUE,
            grid |-> gridOnlyLayout(dengueFeatures(callArgs.coords),
                                    callArgs.svgSize[1], callArgs.svgSize[2])]
    /\ UNCHANGED <<callArgs, genVars, fillVars, viewVars, layoutVars, mapVars,
                   storeVars, debounceVars, chartVars, retryVars>>

NextGridOnly == DrawGridOnly

SpecGridOnly == InitGridOnly /\ [][NextGridOnly]_vars

SpecGridRenderers ==
    (InitLayout \/ InitGridOnly) /\ [][NextLayout \/ NextGridOnly]_vars

\* the rects drawn by the drawHexGridOnly call, and by the drawGridOnly call
hexRects ==
    IF layoutResult.done THEN layoutResult.layout.hexCells ELSE <<>>
gridRects ==
    IF callArgs.fn = "drawGridOnly" /\ callResult.done
    THEN callResult.grid.cells ELSE <<>>

\* of two rects, the one with the larger grid_x lies at the larger pixel x
xGrowsWithGridX(rects) ==
    \A i, j \in 1..Len(rects) :
        rects[i].grid_x > rects[j].grid_x => F64Lt(rects[j].x, rects[i].x)

\* of two rects, the one with the larger grid_y lies at the smaller pixel y
yInverted(rects) ==
    \A i, j \in 1..Len(rects) :
        rects[i].grid_y > rects[j].grid_y => F64Lt(rects[i].y, rects[j].y)

\* of two rects, the one with the larger grid_y lies at the larger pixel y
yNotInverted(rects) ==
    \A i, j \in 1..Len(rects) :
        rects[i].grid_y > rects[j].grid_y => F64Lt(rects[j].y, rects[i].y)

\* C11 as stated: both renderers place the rect with the larger grid_y at
\* the smaller pixel y and let x grow with grid_x.  drawGridOnly violates
\* it.
C11_BothRenderersInvertY ==
    /\ xGrowsWithGridX(hexRects) /\ yInverted(hexRects)
    /\ xGrowsWithGridX(gridRects) /\ yInverted(gridRects)

\* C11, amended: drawHexGridOnly places the rect with the larger grid_y at
\* the smaller pixel y and lets x grow with grid_x; drawGridOnly with a
\* positive cell size lets x grow with grid_x too, but places the rect with
\* the larger grid_y at the larger pixel y.
C11_OnlyHexGridInvertsY ==
    /\ xGrowsWithGridX(hexRects) /\ yInverted(hexRects)
    /\ (callArgs.fn = "drawGridOnly" /\ callResult.done
        /\ callResult.grid.outcome = "drawn" /\ F64Sign(callResult.grid.cellSize) > 0)
       => xGrowsWithGridX(gridRects) /\ yNotInverted(gridRects)

\* drawGridOnly drew, with a positive cell size, two rects of different
\* grid_y and two of different grid_x
C11_Witness ==
    /\ callArgs.fn = "drawGridOnly" /\ callResult.done
    /\ callResult.grid.outcome = "drawn" /\ F64Sign(callResult.grid.cellSize) > 0
    /\ \E i, j \in 1..Len(gridRects) :
           /\ gridRects[i].grid_y > gridRects[j].grid_y
           /\ gridRects[i].grid_x > gridRects[j].grid_x

(***************************************************************************)
(* jenksNaturalBreaks (lines 369-447).  Nothing calls it.  The entries of  *)
(* matrix, the sums and the variance are the doubles the code computes;    *)
(* the data are integers.                                                  *)
(***************************************************************************)
Undefined == [undefined |-> TRUE]

\* line 372: (a, b) => a - b
byValue(a, b) == a - b

\* line 376-378
clampClasses(nClasses, dataLength) ==
    IF nClasses > dataLength THEN dataLength ELSE nClasses

\* line 381-407: both matrices filled with 0, then row 0 of matrix set to 1
\* and the rows below to Infinity in the columns 1..nClasses
jenksMatrices(dataLength, nClasses) ==
    LET columns == 0..MathMax(nClasses, 1)
    IN  [matrix |-> [i \in 0..dataLength |-> [j \in columns |->
                        IF j >= 1 /\ j <= nClasses
                        THEN IF i = 0 THEN F64OfInt(1) ELSE F64Inf(0)
                        ELSE F64Zero]],
         lowerClassLimit |-> [i \in 0..dataLength |-> [j \in columns |-> 0]]]

RECURSIVE classLoop(_, _, _, _, _, _)

\* line 425-428: the test against candidate = variance + matrix[i4][j - 1]
\* and the two assignments
classStep(st, l, i4, variance, j, nClasses, candidate) ==
    IF F64Le(candidate, st.matrix[l][j])
    THEN classLoop(
             [matrix |-> [st.matrix EXCEPT ![l][j] = candidate],
              lowerClassLimit |->
                  [st.lowerClassLimit EXCEPT ![l][j] = i4 + 1]],
             l, i4, variance, j + 1, nClasses)
    ELSE classLoop(st, l, i4, variance, j + 1, nClasses)

\* line 424-429: for (let j = 2; j < nClasses + 1; j++)
classLoop(st, l, i4, variance, j, nClasses) ==
    IF j >= nClasses + 1 THEN st
    ELSE classStep(st, l, i4, variance, j, nClasses,
                   F64Add(variance, st.matrix[i4][j - 1]))

\* the value of a one-element set: TLC computes the element before it goes
\* on, which keeps the evaluation of the nested loops shallow
Only(S) == CHOOSE x \in S : TRUE

\* line 420: sumSquares - (sum * sum) / w
varianceOf(sum, sumSquares, w) ==
    F64Sub(sumSquares, F64Div(F64Mul(sum, sum), F64OfInt(w)))

RECURSIVE lowerLimitLoop(_, _, _, _, _, _, _, _)

\* line 421-430: i4 = lowerClassLimitIndex - 1 = l - m, and the loop over
\* the classes when it is not 0
lowerLimitClasses(st, sortedData, l, m, sum, sumSquares, variance, nClasses) ==
    Only({ lowerLimitLoop(next, sortedData, l, m + 1, sum, sumSquares,
                          variance, nClasses) :
           next \in { IF l - m # 0
                      THEN classLoop(st, l, l - m, variance, 2, nClasses)
                      ELSE st } })

\* line 415-420: w++, sum += val, sumSquares += val * val and variance
lowerLimitSums(st, sortedData, l, m, sum, sumSquares, nClasses) ==
    lowerLimitClasses(st, sortedData, l, m, sum, sumSquares,
                      varianceOf(sum, sumSquares, m + 1), nClasses)

\* line 414-431: for (let m = 0; m < l + 1; m++), then line 433-434
lowerLimitLoop(st, sortedData, l, m, sum, sumSquares, variance, nClasses) ==
    IF m >= l + 1
    THEN [matrix |-> [st.matrix EXCEPT ![l][1] = variance],
          lowerClassLimit |-> [st.lowerClassLimit EXCEPT ![l][1] = 1]]
    ELSE lowerLimitSums(st, sortedData, l, m,
             F64Add(sum, F64OfInt(sortedData[l - m + 1])),
             F64Add(sumSquares,
                    F64Mul(F64OfInt(sortedData[l - m + 1]),
                           F64OfInt(sortedData[l - m + 1]))),
             nClasses)

\* line 409-435: for (let l = 0; l < dataLength; l++); variance keeps its
\* value from one l to the next
RECURSIVE dataLoop(_, _, _, _, _)
dataLoop(st, sortedData, l, nClasses, variance) ==
    IF l >= Len(sortedData) THEN st
    ELSE Only({ dataLoop(next, sortedData, l + 1, nClasses, next.matrix[l][1]) :
                next \in { lowerLimitLoop(st, sortedData, l, 0, F64Zero,
                                          F64Zero, variance, nClasses) } })

\* sortedData[i] for a 0-based index i: undefined outside the array
elementAt(sortedData, i) ==
    IF i >= 0 /\ i < Len(sortedData) THEN Num(sortedData[i + 1]) ELSE Undefined

\* line 439-444: for (let j = nClasses; j > 0; j--); lowerClassLimit[k] is
\* undefined for a k that is no row, and reading [j] of it throws
RECURSIVE markerLoop(_, _, _, _, _)
markerLoop(lowerClassLimit, sortedData, k, j, classMarkers) ==
    IF j <= 0 THEN [threw |-> FALSE, classMarkers |-> classMarkers]
    ELSE IF k \notin DOMAIN lowerClassLimit
    THEN [threw |-> TRUE, classMarkers |-> <<>>]
    ELSE LET id == lowerClassLimit[k][j] - 2
         IN  markerLoop(lowerClassLimit, sortedData,
                        lowerClassLimit[k][j] - 1, j - 1,
                        [classMarkers EXCEPT
                            ![j] = elementAt(sortedData, id + 1)])

\* line 369-447
jenksNaturalBreaks(data, nClassesArg) ==
    IF Len(data) = 0 THEN [threw |-> FALSE, classMarkers |-> <<>>]
    ELSE LET sortedData == StableSort(data, byValue)
             dataLength == Len(sortedData)
             nClasses == clampClasses(nClassesArg, dataLength)
             st == dataLoop(jenksMatrices(dataLength, nClasses),
                            sortedData, 0, nClasses, F64Zero)
         IN  markerLoop(st.lowerClassLimit, sortedData, dataLength, nClasses,
                        [j \in 1..MathMax(nClasses, 0) |-> Undefined])

(***************************************************************************)
(* SpecJenks: one jenksNaturalBreaks call over bounded arrays and class    *)
(* counts, and the call on the nine values of three groups.                *)
(***************************************************************************)
MaxDataLength == 3
MaxValue == 4
MaxClasses == 4

DataArrays == UNION { [1..n -> 1..MaxValue] : n \in 0..MaxDataLength }

threeGroups == <<1, 2, 3, 10, 11, 12, 50, 51, 52>>

JenksInputs ==
    [fn : {"jenksNaturalBreaks"}, data : DataArrays, nClasses : 0..MaxClasses]
        \cup {[fn |-> "jenksNaturalBreaks", data |-> threeGroups, nClasses |-> 3]}

InitJenks ==
    /\ callArgs \in JenksInputs
    /\ callResult = [done |-> FALSE]
    /\ GenIdle
    /\ FillIdle
    /\ ViewIdle
    /\ LayoutIdle
    /\ MapIdle
    /\ StoreIdle
    /\ DebounceIdle
    /\ ChartIdle
    /\ RetryIdle

CallJenks ==
    /\ callArgs.fn = "jenksNaturalBreaks"
    /\ ~callResult.done
    /\ callResult' =
           [done |-> TRUE,
            breaks |-> jenksNaturalBreaks(callArgs.data, callArgs.nClasses)]
    /\ UNCHANGED <<callArgs, genVars, fillVars, viewVars, layoutVars, mapVars,
                   storeVars, debounceVars, chartVars, retryVars>>

NextJenks == CallJenks

SpecJenks == InitJenks /\ [][NextJenks]_vars

jenksReturned == callArgs.fn = "jenksNaturalBreaks" /\ callResult.done

distinctValues(data) == { data[i] : i \in 1..Len(data) }

MathMin(a, b) == IF a <= b THEN a ELSE b

\* C12 as stated: for a non-empty array and nClasses > 0 the call returns
\* without error breaks that are non-decreasing, are all values of the
\* array, and number min(nClasses, number of distinct values).  The code
\* violates it: the call throws or returns undefined.
C12_BreaksOfInput ==
    (jenksReturned /\ Len(callArgs.data) > 0 /\ callArgs.nClasses > 0) =>
        LET breaks == callResult.breaks
            values == distinctValues(callArgs.data)
        IN  /\ ~breaks.threw
            /\ Len(breaks.classMarkers)
                   = MathMin(callArgs.nClasses, Cardinality(values))
            /\ \A j \in 1..Len(breaks.classMarkers) :
                   /\ breaks.classMarkers[j] # Undefined
                   /\ breaks.classMarkers[j].v \in values
            /\ \A i, j \in 1..Len(breaks.classMarkers) :
                   i < j => breaks.classMarkers[i].v <= breaks.classMarkers[j].v

\* what the code does on a non-empty array: one class (after the clamp to
\* the array's length) returns [undefined], more classes throw
jenksThrowsOrUndefined ==
    (jenksReturned /\ Len(callArgs.data) > 0 /\ callArgs.nClasses > 0) =>
        LET breaks == callResult.breaks
        IN  IF clampClasses(callArgs.nClasses, Len(callArgs.data)) = 1
            THEN ~breaks.threw /\ breaks.classMarkers = <<Undefined>>
            ELSE breaks.threw

\* the natural group of a value of threeGroups
groupOf(v) == IF v <= 3 THEN 1 ELSE IF v <= 12 THEN 2 ELSE 3

\* the class of v when the breaks are the classes' lowest values, and when
\* they are the classes' highest values
classByLowerLimit(classMarkers, v) ==
    Cardinality({ j \in 1..Len(classMarkers) : classMarkers[j].v <= v })
classByUpperLimit(classMarkers, v) ==
    Cardinality({ j \in 1..Len(classMarkers) : classMarkers[j].v < v })

separatesGroups(classMarkers, classOf(_, _)) ==
    \A a, b \in distinctValues(threeGroups) :
        (groupOf(a) = groupOf(b)) <=> (classOf(classMarkers, a) = classOf(classMarkers, b))

\* C13 as stated: jenksNaturalBreaks([1,2,3,10,11,12,50,51,52], 3) returns
\* boundaries that put the values of a group in one class and the values of
\* different groups in different classes.  The code violates it: the call
\* throws a TypeError.
C13_SeparatesThreeGroups ==
    (jenksReturned /\ callArgs.data = threeGroups /\ callArgs.nClasses = 3) =>
        LET breaks == callResult.breaks
        IN  /\ ~breaks.threw
            /\ \A j \in 1..Len(breaks.classMarkers) :
                   breaks.classMarkers[j] # Undefined
            /\ \/ separatesGroups(breaks.classMarkers, classByLowerLimit)
               \/ separatesGroups(breaks.classMarkers, classByUpperLimit)

\* Math.PI * r * r, the area of a circle as the code's numbers give it
circleArea(r) == F64Mul(MathPI, F64Mul(r, r))

\* Math.sqrt(2)
sqrtOfTwo == F64Sqrt(F64OfInt(2))

\* 2^-49: the operations between the votes and the area round eight times,
\* each by no more than 2^-53 of its result
relativeSlack == F64Div(F64OfInt(1), F64Mul(F64OfInt(2 ^ 25), F64OfInt(2 ^ 24)))

\* x is y to within the relative error slack; an infinity is itself only
within(x, y, slack) ==
    IF x.k # "num" \/ y.k # "num" THEN x = y
    ELSE F64Le(F64Abs(F64Sub(x, y)), F64Mul(slack, F64Abs(y)))

\* the votes, the radius and the circle's r of the seats with votes v > 0
\* among the seats an SVG element's circles are bound to
votedSeatsOf(seats) ==
    { [votes |-> seats[i].votes, radius |-> seats[i].radius, r |-> seats[i].r] :
        i \in { k \in 1..Len(seats) : hasVotes(seats[k].votes) } }

\* the seats of S with the votes twice have the area doubleArea and the
\* radius longerRadius to within slack
doubledWithin(S, twice, doubleArea, longerRadius, slack) ==
    \A a \in S :
        a.votes = twice =>
            /\ within(circleArea(a.r), doubleArea, slack)
            /\ within(a.r, longerRadius, slack)

\* every seat of S has the radius of line 1851 as the r of its circle, a
\* circle of area v / areaDivisor to within slack, and a seat with twice the
\* votes of another has twice its area and sqrt(2) times its radius to
\* within slack
proportionalWithin(S, slack) ==
    \A b \in S :
        /\ b.r = b.radius
        /\ within(circleArea(b.r), F64Div(b.votes, F64OfInt(areaDivisor)), slack)
        /\ doubledWithin(S, F64Mul(F64OfInt(2), b.votes),
                         F64Mul(F64OfInt(2), circleArea(b.r)),
                         F64Mul(sqrtOfTwo, b.r), slack)

\* proportionalWithin for the seats of the layouts of the model and the two
\* slacks of C14, computed once
proportionalTable ==
    { [seats |-> S, slack |-> slack, holds |-> proportionalWithin(S, slack)] :
        S \in { votedSeatsOf(l.layout.filteredData) : l \in layouts },
        slack \in {F64Zero, relativeSlack} }

proportional(S, slack) ==
    IF \E t \in proportionalTable : t.seats = S /\ t.slack = slack
    THEN (CHOOSE t \in proportionalTable : t.seats = S /\ t.slack = slack).holds
    ELSE proportionalWithin(S, slack)

\* proportionalWithin holds of the seats of every SVG element of the
\* container
areaProportionalWithin(slack) ==
    \A k \in 1..Len(domSvgs) :
        proportional(votedSeatsOf(domSvgs[k].seatGroups), slack)

\* C14 as stated: in the circular seat view every seat with votes v > 0 has
\* a circle of area pi * r^2 = v / 18, not clamped; so a seat with twice the
\* votes of another has twice its area, that is sqrt(2) times its radius.
\* In the doubles of the code the equalities are missed by a rounding error.
C14_AreaProportional == areaProportionalWithin(F64Zero)

\* C14, amended: the equalities hold to within a relative error of 2^-49.
C14_AreaProportionalUpToRounding == areaProportionalWithin(relativeSlack)

\* a drawn SVG holds a seat with votes v > 0 and a seat with votes 2v, whose
\* radius is not sqrt(2) times the other's exactly
C14_Witness ==
    \E k \in 1..Len(domSvgs) :
        \E a, b \in votedSeatsOf(domSvgs[k].seatGroups) :
            /\ a.votes = F64Mul(F64OfInt(2), b.votes)
            /\ a.r # F64Mul(sqrtOfTwo, b.r)
            /\ within(a.r, F64Mul(sqrtOfTwo, b.r), relativeSlack)

\* C15: overlapping drawParliamentSeats calls (the mount draw and resize
\* draws whose loads are in flight together) leave, once every call has
\* completed in the mounted view, exactly one SVG in the container, the one
\* the svg handle refers to, and it is the whole seat layout of one load
\* and one container size.
C15_OneSvgAfterOverlap ==
    (phase = "mounted" /\ awaitingLoad = 0 /\ lastDraw.done) =>
        /\ Len(domSvgs) = 1
        /\ svg = domSvgs[1].id
        /\ ~lastDraw.error
        /\ \E outcome \in CsvOutcomes, size \in ContainerSizes :
               \E candidates \in loadsOf(outcome) :
                   /\ domSvgs[1].width = size[1]
                   /\ domSvgs[1].height = size[2]
                   /\ domSvgs[1].seatGroups
                          = seatGroupsOf(layoutOf(candidates, size).filteredData)

\* every call has completed, and one of them resumed while another was
\* still waiting for its load
C15_Witness ==
    /\ phase = "mounted" /\ awaitingLoad = 0 /\ lastDraw.done
    /\ lastDraw.overlapped
    /\ svgCreated >= 2

(***************************************************************************)
(* The data requests.  A URL is the sequence of its path segments.         *)
(***************************************************************************)
\* vue.config.js (part_000, line 4): publicPath, which is process.env.BASE_URL
publicPath == <<"legislator-election-24">>

\* router/index.js, line 113: createWebHistory('/legislator-election-24/')
routerBase == <<"legislator-election-24">>

csvFile == <<"data", "csv", "elected_legislators_final.csv">>

\* the URL each module requests its data from
dataUrl(loader) ==
    CASE loader = "MapTab.loadCountyData" ->
             publicPath \o <<"data", "geojson", "taipei_districts_20220915.geojson">>
      [] loader = "MapTab.loadHexData" ->
             publicPath \o <<"data", "geojson",
                             "grid_with_weighted_angle_stats_500m.geojson">>
      [] loader = "MapTab.loadDengueData" ->
             publicPath \o <<"data", "geojson",
                             "dengue_grid_counts_1km_2023_land_only.geojson">>
      [] loader = "ParliamentView.loadCandidateData" ->
             <<"legislator-election-24">> \o csvFile
      [] loader = "BarView.loadCandidateData" ->
             <<"legislator-election-24">> \o csvFile
      [] loader = "BarView2.loadCandidateData" ->
             <<"legislator-election-24">> \o csvFile
      [] loader = "TreemapView.loadCandidateData" ->
             <<"legislator-election-24">> \o csvFile
      [] loader = "RectView.loadCandidateData" ->
             <<"legislator-election-24">> \o csvFile
      [] loader = "dataStore.loadElectedLegislators" -> csvFile

\* the loaders of the views and of the map component
ViewLoaders ==
    {"MapTab.loadCountyData", "MapTab.loadHexData", "MapTab.loadDengueData",
     "ParliamentView.loadCandidateData", "BarView.loadCandidateData",
     "BarView2.loadCandidateData", "TreemapView.loadCandidateData",
     "RectView.loadCandidateData"}

request(loader) == [loader |-> loader, url |-> dataUrl(loader)]

(***************************************************************************)
(* The data store (part_002).  The votes fields hold at most nine digits,  *)
(* so that the value parseInt reads is an integer that a double holds      *)
(* exactly.                                                                *)
(***************************************************************************)
\* the value of the digits at the start of chars, after the digits of
\* value acc; seen tells that a digit was read
RECURSIVE parseDigits(_, _, _)
parseDigits(chars, acc, seen) ==
    IF Len(chars) > 0 /\ isDigit(Head(chars))
    THEN parseDigits(Tail(chars), 10 * acc + digitValue(Head(chars)), TRUE)
    ELSE IF seen THEN Num(acc) ELSE NaN

\* the number -0, which parseInt returns for a minus sign before zeros
NegativeZero == [nan |-> FALSE, v |-> 0, negative |-> TRUE]

\* parseInt(text, 10): leading white space, a sign, then digits up to the
\* first other character; NaN without a digit
parseInt10(text) ==
    LET chars == trimStart(text)
    IN  IF Len(chars) > 0 /\ Head(chars) = "-"
        THEN LET n == parseDigits(Tail(chars), 0, FALSE)
             IN  IF n.nan THEN NaN
                 ELSE IF n.v = 0 THEN NegativeZero ELSE Num(-n.v)
        ELSE IF Len(chars) > 0 /\ Head(chars) = "+"
        THEN parseDigits(Tail(chars), 0, FALSE)
        ELSE parseDigits(chars, 0, FALSE)

\* line 55: d.votes ? parseInt(d.votes, 10) : 0; the empty string is falsy
processedVotes(text) == IF Len(text) = 0 THEN Num(0) ELSE parseInt10(text)

\* line 53-56: data.map(...)
processedData(data) ==
    Array([i \in 1..Len(data) |->
              [name |-> data[i].name, votes |-> processedVotes(data[i].votes)]],
          Len(data))

\* the store's state as a record
storeState ==
    [electedLegislators |-> electedLegislators,
     isLoadingLegislators |-> isLoadingLegislators,
     legislatorsError |-> legislatorsError]

\* a call that does not look at isLoadingLegislators
neverLoading(store) == FALSE

\* line 43: if (isLoadingLegislators.value) return
loadingGuard(store) == store.isLoadingLegislators

\* line 44: if (electedLegislators.value.length > 0) return
loadedGuard(store) == Len(store.electedLegislators) > 0

\* the store when d3.csv has settled, without the finally block
settledWithoutFinally(store, outcome) ==
    IF outcome.ok
    THEN [store EXCEPT !.electedLegislators = processedData(outcome.rows)]
    ELSE [store EXCEPT !.legislatorsError = [error |-> "d3.csv"]]

\* line 50-68: the store when d3.csv has settled: the rows on success, the
\* error on failure, and isLoadingLegislators false in both cases
settled(store, outcome) ==
    IF outcome.ok
    THEN [store EXCEPT !.electedLegislators = processedData(outcome.rows),
                       !.isLoadingLegislators = FALSE]
    ELSE [store EXCEPT !.legislatorsError = [error |-> "d3.csv"],
                       !.isLoadingLegislators = FALSE]

MaxLoadCalls == 3
MaxRows == 2

\* the votes fields of the files: empty, digits, a sign with digits and
\* more, no digit, a sign and digits after a tab, and minus zero
VoteTexts ==
    {<<>>, <<"7">>, <<"1", "2">>, <<"-", "3", "x">>, <<"x">>,
     <<"U+0009", "+", "1", "2">>, <<"-", "0">>}

\* the files d3.csv may resolve with: row i has the name i
StoreFiles ==
    UNION { { [i \in 1..n |-> [name |-> i, votes |-> texts[i]]] :
                texts \in [1..n -> VoteTexts] } : n \in 0..MaxRows }

StoreOutcomes ==
    { [ok |-> FALSE, rows |-> <<>>] } \cup [ok : {TRUE}, rows : StoreFiles]

InitStore ==
    /\ StoreIdle
    /\ GenIdle
    /\ FillIdle
    /\ ViewIdle
    /\ LayoutIdle
    /\ MapIdle
    /\ CallIdle
    /\ DebounceIdle
    /\ ChartIdle
    /\ RetryIdle

\* a call of loadElectedLegislators (App.vue calls it in onMounted), up to
\* its await
LoadElectedLegislators ==
    /\ loadCalls < MaxLoadCalls
    /\ loadCalls' = loadCalls + 1
    /\ IF loadingGuard(storeState)
       THEN /\ lastLoad' = [kind |-> "skippedLoading"]
            /\ UNCHANGED <<requested, electedLegislators, isLoadingLegislators,
                           legislatorsError, fetches>>
       ELSE IF loadedGuard(storeState)
       THEN /\ lastLoad' = [kind |-> "skippedLoaded"]
            /\ UNCHANGED <<requested, electedLegislators, isLoadingLegislators,
                           legislatorsError, fetches>>
       ELSE /\ isLoadingLegislators' = TRUE
            /\ legislatorsError' = Null
            /\ fetches' = fetches + 1
            /\ requested' =
                   requested \cup {request("dataStore.loadElectedLegislators")}
            /\ lastLoad' = [kind |-> "fetching"]
            /\ UNCHANGED electedLegislators
    /\ UNCHANGED everLoaded
    /\ UNCHANGED <<genVars, fillVars, viewVars, layoutVars, mapVars,
                   callVars, debounceVars, chartVars, retryVars>>

\* d3.csv settles and loadElectedLegislators runs from line 50 to its end
FetchSettles(outcome) ==
    /\ fetches > 0
    /\ fetches' = fetches - 1
    /\ \E after \in { settled(storeState, outcome) } :
           /\ electedLegislators' = after.electedLegislators
           /\ isLoadingLegislators' = after.isLoadingLegislators
           /\ legislatorsError' = after.legislatorsError
    /\ lastLoad' = [kind |-> IF outcome.ok THEN "resolved" ELSE "rejected",
                    rows |-> outcome.rows,
                    before |-> electedLegislators]
    /\ everLoaded' = (everLoaded \/ outcome.ok)
    /\ UNCHANGED <<requested, loadCalls>>
    /\ UNCHANGED <<genVars, fillVars, viewVars, layoutVars, mapVars,
                   callVars, debounceVars, chartVars, retryVars>>

NextStore ==
    \/ LoadElectedLegislators
    \/ \E outcome \in StoreOutcomes : FetchSettles(outcome)

SpecStore == InitStore /\ [][NextStore]_vars

\* a data request of a view or of the map component
RequestData(loader) ==
    /\ request(loader) \notin requested
    /\ requested' = requested \cup {request(loader)}
    /\ UNCHANGED <<electedLegislators, isLoadingLegislators, legislatorsError,
                   fetches, loadCalls, lastLoad, everLoaded>>
    /\ UNCHANGED <<genVars, fillVars, viewVars, layoutVars, mapVars,
                   callVars, debounceVars, chartVars, retryVars>>

NextRequests == \E loader \in ViewLoaders : RequestData(loader)

\* the application: the store and the loaders of the routed modules
SpecRequests == InitStore /\ [][NextStore \/ NextRequests]_vars

\* base is a proper prefix of url
isUnder(base, url) ==
    Len(url) > Len(base) /\ SubSeq(url, 1, Len(base)) = base

\* C16 as stated: every URL requested for a data file lies under the base
\* path that publicPath and the router's history base use, in every module
\* that loads data.  The data store violates it.
C16_DataUrlsUnderBase ==
    \A r \in requested : isUnder(publicPath, r.url) /\ isUnder(routerBase, r.url)

\* C17: at most one d3.csv request of the store is in flight, and a
\* loadElectedLegislators call made while isLoadingLegislators is true
\* starts no request and changes no state of the store.
C17_OneFetchInFlight ==
    [][/\ fetches' <= 1
       /\ (isLoadingLegislators /\ loadCalls' = loadCalls + 1) =>
              /\ fetches' = fetches
              /\ requested' = requested
              /\ storeState' = storeState]_vars

\* a call was made while the one request was in flight
C17_Witness ==
    lastLoad.kind = "skippedLoading" /\ fetches = 1 /\ isLoadingLegislators

\* the store under the assumption that a d3.csv request in flight settles
FairSpecStore ==
    SpecStore /\ WF_vars(\E outcome \in StoreOutcomes : FetchSettles(outcome))

\* a field of digits only, and the number its decimal numeral denotes
isNumeral(text) == Len(text) > 0 /\ \A i \in 1..Len(text) : isDigit(text[i])

RECURSIVE denotedBy(_)
denotedBy(text) ==
    IF Len(text) = 0 THEN 0
    ELSE 10 * denotedBy(SubSeq(text, 1, Len(text) - 1))
         + digitValue(text[Len(text)])

\* electedLegislators holds the rows of the file: as many, in the file's
\* order, each with its name and, where the votes field is a numeral, with
\* the number it denotes
holdsRows(legislators, rows) ==
    /\ Len(legislators) = Len(rows)
    /\ \A i \in 1..Len(rows) :
           /\ legislators[i].name = rows[i].name
           /\ isNumeral(rows[i].votes) =>
                  legislators[i].votes = Num(denotedBy(rows[i].votes))

\* C18: every call that starts a request is followed by
\* isLoadingLegislators = false; when the request fails legislatorsError
\* holds the error and electedLegislators is unchanged, and when it
\* succeeds legislatorsError is null and electedLegislators holds the rows
\* of the file.
C18_LoadSettles ==
    /\ (fetches > 0) ~> ~isLoadingLegislators
    /\ [][fetches' < fetches =>
            /\ ~isLoadingLegislators'
            /\ IF lastLoad'.kind = "rejected"
               THEN /\ legislatorsError' # Null
                    /\ electedLegislators' = electedLegislators
               ELSE /\ legislatorsError' = Null
                    /\ holdsRows(electedLegislators', lastLoad'.rows)]_vars

\* a load has failed and the next one has succeeded with a file of two
\* rows, the votes of the first written after a tab and a sign
C18_Witness ==
    /\ loadCalls = 2
    /\ lastLoad.kind = "resolved"
    /\ ~isLoadingLegislators
    /\ legislatorsError = Null
    /\ lastLoad.rows = << [name |-> 1, votes |-> <<"U+0009", "+", "1", "2">>],
                          [name |-> 2, votes |-> <<"7">>] >>
    /\ electedLegislators = << [name |-> 1, votes |-> Num(12)],
                               [name |-> 2, votes |-> Num(7)] >>

\* C19 as stated: after a load has completed successfully, every later
\* loadElectedLegislators call starts no request and leaves
\* electedLegislators unchanged.  The code violates it after a file without
\* rows.
C19_NeverLoadsAgain ==
    [][(everLoaded /\ loadCalls' = loadCalls + 1) =>
           /\ fetches' = fetches
           /\ requested' = requested
           /\ electedLegislators' = electedLegislators]_vars

(***************************************************************************)
(* handleResize: the debounce of the window's resize events.  The map      *)
(* component (part_000 lines 1415-1425), the parliament seat view          *)
(* (part_000 lines 1956-1964) and BarView2.vue (lines 412-420) hold the    *)
(* same handler; they differ in the function the timeout calls.  The       *)
(* window's timeouts are modelled with the time: a timeout runs no earlier *)
(* than its delay after it was set, and may run later.                     *)
(***************************************************************************)

\* the delay of setTimeout in handleResize (part_000 lines 1424 and 1963,
\* BarView2.vue line 419), in ms
resizeDelay == 300

MaxResizeEvents == 3
MaxQuiet == 3

\* the three views with a handleResize: the map component (part_000 line
\* 109), the parliament seat view (part_000 line 1564) and BarView2.vue
ResizingViews == {"MapTab", "ParliamentSeats", "BarView2"}

\* the function the timeout's callback calls (part_000 lines 1423 and 1962,
\* BarView2.vue line 418)
redrawOf(view) ==
    CASE view = "MapTab" -> "initMap"
      [] view = "ParliamentSeats" -> "drawParliamentSeats"
      [] view = "BarView2" -> "drawBarChart"

\* the steps in which the time passes, in ms
TimeSteps == {100, 300}

\* window.setTimeout(callback, delay) returning id
setTimeout(pending, id, now, delay) ==
    pending \cup {[id |-> id, due |-> now + delay]}

\* window.clearTimeout(id): an id that has run or was cleared is ignored
clearTimeout(pending, id) == { t \in pending : t.id # id }

resizeTimerKept(pending, timerId) == pending

\* if (resizeTimer) { clearTimeout(resizeTimer); }
clearResizeTimer(pending, timerId) ==
    IF timerId # 0 THEN clearTimeout(pending, timerId) ELSE pending

InitDebounce ==
    /\ resizeView \in ResizingViews
    /\ DebounceFresh
    /\ ChartIdle
    /\ RetryIdle
    /\ GenIdle
    /\ FillIdle
    /\ ViewIdle
    /\ LayoutIdle
    /\ MapIdle
    /\ CallIdle
    /\ StoreIdle

\* onMounted: window.addEventListener('resize', handleResize)
DebounceMount ==
    /\ resizePhase = "created"
    /\ resizePhase' = "mounted"
    /\ resizeListening' = TRUE
    /\ UNCHANGED <<resizeView, resizeTimerId, timeouts, timeoutsSet, clock,
                   lastResizeAt, bursts, redraws, lastRedraw>>
    /\ UNCHANGED <<genVars, fillVars, viewVars, layoutVars, mapVars,
                   callVars, storeVars, chartVars, retryVars>>

\* a resize event of the window: handleResize
HandleResize ==
    /\ resizeListening
    /\ timeoutsSet < MaxResizeEvents
    /\ timeoutsSet' = timeoutsSet + 1
    /\ timeouts' = setTimeout(clearResizeTimer(timeouts, resizeTimerId),
                              timeoutsSet + 1, clock, resizeDelay)
    /\ resizeTimerId' = timeoutsSet + 1
    /\ lastResizeAt' = clock
    /\ bursts' = IF timeouts = {} THEN bursts + 1 ELSE bursts
    /\ UNCHANGED <<resizeView, resizePhase, resizeListening, clock, redraws,
                   lastRedraw>>
    /\ UNCHANGED <<genVars, fillVars, viewVars, layoutVars, mapVars,
                   callVars, storeVars, chartVars, retryVars>>

\* a timeout that is due runs its callback, which calls the view's drawing
\* function; timeouts of one delay run in the order they were set
TimeoutRuns ==
    \E t \in timeouts :
        /\ clock >= t.due
        /\ \A u \in timeouts : t.id <= u.id
        /\ timeouts' = timeouts \ {t}
        /\ redraws' = redraws + 1
        /\ lastRedraw' = [called |-> TRUE, fn |-> redrawOf(resizeView),
                          timeout |-> t.id, quiet |-> clock - lastResizeAt]
        /\ UNCHANGED <<resizeView, resizePhase, resizeListening,
                       resizeTimerId, timeoutsSet, clock, lastResizeAt,
                       bursts>>
        /\ UNCHANGED <<genVars, fillVars, viewVars, layoutVars, mapVars,
                       callVars, storeVars, chartVars, retryVars>>

\* the time passes
TimePasses(ms) ==
    /\ resizeView # "none"
    /\ clock + ms <= MaxQuiet * resizeDelay
    /\ clock' = clock + ms
    /\ UNCHANGED <<resizeView, resizePhase, resizeListening, resizeTimerId,
                   timeouts, timeoutsSet, lastResizeAt, bursts, redraws,
                   lastRedraw>>
    /\ UNCHANGED <<genVars, fillVars, viewVars, layoutVars, mapVars,
                   callVars, storeVars, chartVars, retryVars>>

\* onUnmounted: the timer is cleared and the listener removed
DebounceUnmount ==
    /\ resizePhase = "mounted"
    /\ resizePhase' = "unmounted"
    /\ timeouts' = clearResizeTimer(timeouts, resizeTimerId)
    /\ resizeListening' = FALSE
    /\ UNCHANGED <<resizeView, resizeTimerId, timeoutsSet, clock,
                   lastResizeAt, bursts, redraws, lastRedraw>>
    /\ UNCHANGED <<genVars, fillVars, viewVars, layoutVars, mapVars,
                   callVars, storeVars, chartVars, retryVars>>

NextDebounce ==
    \/ DebounceMount
    \/ HandleResize
    \/ TimeoutRuns
    \/ \E ms \in TimeSteps : TimePasses(ms)
    \/ DebounceUnmount

SpecDebounce == InitDebounce /\ [][NextDebounce]_vars

\* at most one timeout of handleResize is pending; a redraw starts only when
\* resizeDelay ms have passed since the last resize event; and in the mounted
\* view each burst (the resize events from one that finds no timeout pending
\* to the run of the timeout) has had one redraw once no timeout is pending
debounceInvariant ==
    /\ Cardinality(timeouts) <= 1
    /\ lastRedraw.called => lastRedraw.quiet >= resizeDelay
    /\ redraws <= bursts
    /\ resizePhase = "mounted" =>
           redraws = IF timeouts = {} THEN bursts ELSE bursts - 1

\* a resize event leaves exactly the timeout it sets: a timeout pending
\* before is cancelled, the new one is due resizeDelay ms from now
resizeRestartsTimer ==
    timeoutsSet' = timeoutsSet + 1 =>
        timeouts' = {[id |-> timeoutsSet', due |-> clock + resizeDelay]}

\* C20: resize handling is debounced: at most one resize timer is pending at
\* any time, a resize event arriving while a timer is pending cancels it and
\* starts a new one, a redraw caused by resizing starts only when 300 ms have
\* passed with no further resize event, and a burst of resize events causes
\* exactly one redraw.
C20_ResizeDebounced == []debounceInvariant /\ [][resizeRestartsTimer]_vars

\* a burst of three resize events 100 ms apart has been followed by its one
\* redraw
C20_Witness ==
    /\ bursts = 1
    /\ timeoutsSet = 3
    /\ lastResizeAt = 200
    /\ redraws = 1
    /\ lastRedraw.called
    /\ lastRedraw.timeout = 3

(***************************************************************************)
(* The chart views: BarView (part_001), BarView2.vue, TreemapView.vue,     *)
(* RectView.vue and the circle view (second component of part_000).  They  *)
(* share the lifecycle: onMounted queues a draw and registers              *)
(* handleResize; the draw function returns when containerRef.value is      *)
(* null, awaits loadCandidateData(), removes the old SVG, reads the        *)
(* container and appends a new SVG to it; onUnmounted clears the timer,    *)
(* removes the listener and the SVG.  BarView, BarView2 and TreemapView    *)
(* also append a .seat-tooltip to body in each draw and remove all of them *)
(* in onUnmounted.                                                         *)
(***************************************************************************)

MaxChartResizes == 2

ChartViews == {"BarView", "BarView2", "TreemapView", "RectView", "CircleView"}

\* the draw function of the view (part_001 line 83, BarView2.vue line 84,
\* TreemapView.vue line 83, RectView.vue line 91, part_000 line 1709)
drawOf(view) ==
    CASE view = "BarView" -> "drawBarChart"
      [] view = "BarView2" -> "drawBarChart"
      [] view = "TreemapView" -> "drawTreemap"
      [] view = "RectView" -> "drawRectSeats"
      [] view = "CircleView" -> "drawParliamentSeats"

\* d3.select('body').append('div').attr('class', 'seat-tooltip') (part_001
\* lines 146-149, BarView2.vue lines 166-169, TreemapView.vue lines 154-157);
\* RectView.vue and the circle view create no tooltip
createsTooltip(view) == view \in {"BarView", "BarView2", "TreemapView"}

\* loadCandidateData resolves with the rows, or with [] when d3.csv rejects
\* (part_001 lines 48-78); the rows hold candidates of each party of
\* partyData ("rows"), of some of them only ("rowsOfSomeParties") or there is
\* no row
ChartCsvOutcomes == {"rows", "rowsOfSomeParties", "noRows", "rejected"}

\* candidates.filter((c) => c.partyId === party.id) is empty for a party
\* (TreemapView.vue line 113)
partyWithoutCandidates(outcome) == outcome # "rows"

\* TreemapView.vue lines 132-184: d3.hierarchy gives the node of a party
\* without candidates no children, and .data((d) => d.children) throws a
\* TypeError on it, after the SVG (line 148) and the tooltip (line 156) were
\* appended; the other views draw every list of candidates
throwsAfterAppend(view, outcome) ==
    view = "TreemapView" /\ partyWithoutCandidates(outcome)

chartTooltipsKept(view, tooltips) == tooltips

\* onUnmounted: d3.selectAll('.seat-tooltip').remove() (part_001 line 317,
\* BarView2.vue line 438, TreemapView.vue line 306)
removeSeatTooltips(view, tooltips) ==
    IF createsTooltip(view) THEN {} ELSE tooltips

\* if (svg) { svg.remove(); } (part_001 lines 94-96): the element leaves the
\* container; removing an element that has left already does nothing
chartSvgRemoved(svgs, handle) == svgs \ {handle}

\* the draw from the line after the await to its end (part_001 lines
\* 88-286): the elements it leaves and what it did
chartDrawResumed(view, outcome, containerSet, svgs, tooltips, handle, created) ==
    IF ~containerSet
    THEN \* container is null: container.getBoundingClientRect() throws
         [svgs |-> chartSvgRemoved(svgs, handle), tooltips |-> tooltips,
          svg |-> handle, created |-> created, kind |-> "threw"]
    ELSE [svgs |-> chartSvgRemoved(svgs, handle) \cup {created + 1},
          tooltips |-> IF createsTooltip(view)
                       THEN tooltips \cup {created + 2} ELSE tooltips,
          svg |-> created + 1,
          created |-> IF createsTooltip(view) THEN created + 2
                      ELSE created + 1,
          kind |-> IF throwsAfterAppend(view, outcome) THEN "threwAfterAppend"
                   ELSE "drawn"]

InitChart ==
    /\ chartView \in ChartViews
    /\ ChartFresh
    /\ RetryIdle
    /\ GenIdle
    /\ FillIdle
    /\ ViewIdle
    /\ LayoutIdle
    /\ MapIdle
    /\ CallIdle
    /\ StoreIdle
    /\ DebounceIdle

\* a call of the draw function up to its await: if (!containerRef.value)
\* return (part_001 line 84)
chartDrawCalled ==
    chartAwaiting' = IF chartContainerRef THEN chartAwaiting + 1
                     ELSE chartAwaiting

\* onMounted (part_001 lines 302-307)
ChartMount ==
    /\ chartView # "none"
    /\ chartPhase = "created"
    /\ chartPhase' = "mounted"
    /\ chartContainerRef' = TRUE
    /\ chartTickPending' = TRUE
    /\ chartListening' = TRUE
    /\ UNCHANGED <<chartView, chartResizeTimer, chartResizes, chartAwaiting,
                   chartSvg, chartCreated, chartSvgs, seatTooltips,
                   lastChartDraw>>
    /\ UNCHANGED <<genVars, fillVars, viewVars, layoutVars, mapVars,
                   callVars, storeVars, debounceVars, retryVars>>

\* the callback of nextTick
ChartNextTick ==
    /\ chartTickPending
    /\ chartTickPending' = FALSE
    /\ chartDrawCalled
    /\ UNCHANGED <<chartView, chartPhase, chartContainerRef, chartListening,
                   chartResizeTimer, chartResizes, chartSvg, chartCreated,
                   chartSvgs, seatTooltips, lastChartDraw>>
    /\ UNCHANGED <<genVars, fillVars, viewVars, layoutVars, mapVars,
                   callVars, storeVars, debounceVars, retryVars>>

\* a resize event: handleResize (part_001 lines 292-299)
ChartResize ==
    /\ chartListening
    /\ chartResizes < MaxChartResizes
    /\ chartResizes' = chartResizes + 1
    /\ chartResizeTimer' = "pending"
    /\ UNCHANGED <<chartView, chartPhase, chartContainerRef, chartListening,
                   chartTickPending, chartAwaiting, chartSvg, chartCreated,
                   chartSvgs, seatTooltips, lastChartDraw>>
    /\ UNCHANGED <<genVars, fillVars, viewVars, layoutVars, mapVars,
                   callVars, storeVars, debounceVars, retryVars>>

\* the timeout of handleResize runs (part_001 lines 296-298)
ChartTimerFires ==
    /\ chartResizeTimer = "pending"
    /\ chartResizeTimer' = "fired"
    /\ chartDrawCalled
    /\ UNCHANGED <<chartView, chartPhase, chartContainerRef, chartListening,
                   chartTickPending, chartResizes, chartSvg, chartCreated,
                   chartSvgs, seatTooltips, lastChartDraw>>
    /\ UNCHANGED <<genVars, fillVars, viewVars, layoutVars, mapVars,
                   callVars, storeVars, debounceVars, retryVars>>

\* loadCandidateData() of one suspended draw returns and the draw runs to
\* its end
ChartLoadReturns(outcome) ==
    /\ chartAwaiting > 0
    /\ chartAwaiting' = chartAwaiting - 1
    /\ \E r \in {chartDrawResumed(chartView, outcome, chartContainerRef,
                                  chartSvgs, seatTooltips, chartSvg,
                                  chartCreated)} :
           /\ chartSvgs' = r.svgs
           /\ seatTooltips' = r.tooltips
           /\ chartSvg' = r.svg
           /\ chartCreated' = r.created
           /\ lastChartDraw' = [kind |-> r.kind, fn |-> drawOf(chartView),
                                csv |-> outcome, phase |-> chartPhase,
                                overlapped |-> chartAwaiting > 1]
    /\ UNCHANGED <<chartView, chartPhase, chartContainerRef, chartListening,
                   chartTickPending, chartResizeTimer, chartResizes>>
    /\ UNCHANGED <<genVars, fillVars, viewVars, layoutVars, mapVars,
                   callVars, storeVars, debounceVars, retryVars>>

\* the component is unmounted (the template ref becomes null) and
\* onUnmounted runs (part_001 lines 310-323)
ChartUnmount ==
    /\ chartPhase = "mounted"
    /\ chartPhase' = "unmounted"
    /\ chartContainerRef' = FALSE
    /\ chartResizeTimer' = IF chartResizeTimer = "pending" THEN "cleared"
                           ELSE chartResizeTimer
    /\ chartListening' = FALSE
    /\ seatTooltips' = removeSeatTooltips(chartView, seatTooltips)
    /\ chartSvgs' = chartSvgRemoved(chartSvgs, chartSvg)
    /\ chartSvg' = 0
    /\ UNCHANGED <<chartView, chartTickPending, chartResizes, chartAwaiting,
                   chartCreated, lastChartDraw>>
    /\ UNCHANGED <<genVars, fillVars, viewVars, layoutVars, mapVars,
                   callVars, storeVars, debounceVars, retryVars>>

NextChart ==
    \/ ChartMount
    \/ ChartNextTick
    \/ ChartResize
    \/ ChartTimerFires
    \/ \E outcome \in ChartCsvOutcomes : ChartLoadReturns(outcome)
    \/ ChartUnmount

SpecChart == InitChart /\ [][NextChart]_vars

\* after onUnmounted no SVG and no .seat-tooltip of the view exists
nothingLeftAfterUnmount ==
    chartPhase = "unmounted" => chartSvgs = {} /\ seatTooltips = {}

\* after onUnmounted no element is created
nothingCreatedAfterUnmount ==
    chartPhase = "unmounted" => chartCreated' = chartCreated

\* C21: after a chart view has been unmounted, no SVG and no .seat-tooltip
\* element created by it exists and none is created later, for every
\* interleaving of the unmount with a pending resize timer and with a draw
\* that is still awaiting its CSV load.
C21_NothingAfterUnmount ==
    []nothingLeftAfterUnmount /\ [][nothingCreatedAfterUnmount]_vars

\* a view that had drawn and had a resize timer pending was unmounted with a
\* draw suspended, and that draw has resumed since
C21_Witness ==
    /\ chartPhase = "unmounted"
    /\ chartResizeTimer = "cleared"
    /\ chartCreated > 0
    /\ lastChartDraw.kind = "threw"
    /\ lastChartDraw.phase = "unmounted"

\* C22: while a bar or treemap view is mounted, the document holds at most
\* one .seat-tooltip element after any sequence of draws.
C22_OneTooltipWhileMounted ==
    (chartPhase = "mounted" /\ createsTooltip(chartView)) =>
        Cardinality(seatTooltips) <= 1

\* the SVG elements that are children of the map container
svgsInMapContainer == { i \in 1..Len(mapElements) : mapElements[i].attached }

\* C23: in the map component, the map container holds at most one SVG after
\* any sequence of initMap runs (mount, then debounced resizes) and mode
\* toggles.
C23_OneSvgInMapContainer == Cardinality(svgsInMapContainer) <= 1

(***************************************************************************)
(* The retries of one initMap run (part_000 lines 1336-1412), from the     *)
(* first call of tryCreateMap (line 1379) or tryCreateGrid (line 1410) on, *)
(* with the time since the retry timeout was set.  Meanwhile the container *)
(* may be laid out, lose its size, or go with the component.               *)
(***************************************************************************)

\* the delay of setTimeout(tryCreateMap, 100) (part_000 lines 1375 and
\* 1406), in ms
retryDelay == 100

MaxRetryLayouts == 2
MaxLate == 2

\* the steps in which the time passes, in ms
RetrySteps == {50, 100}

\* createMap returns false (lines 1258-1264 and 1326-1329): no container, a
\* container of size zero, or an exception caught in its try block
createMapFails(container, threw) == container # "sized" \/ threw

tryCreateUnbounded(count, container, threw) ==
    IF ~createMapFails(container, threw)
    THEN [attempts |-> count + 1, attempted |-> TRUE, created |-> TRUE,
          scheduled |-> FALSE]
    ELSE [attempts |-> count + 1, attempted |-> TRUE, created |-> FALSE,
          scheduled |-> TRUE]

\* one run of tryCreateMap (lines 1358-1377) or tryCreateGrid (lines
\* 1392-1408), with attempts = count before it
tryCreateMap(count, container, threw) ==
    IF count >= maxAttempts
    THEN [attempts |-> count, attempted |-> FALSE, created |-> FALSE,
          scheduled |-> FALSE]
    ELSE IF ~createMapFails(container, threw)
    THEN [attempts |-> count + 1, attempted |-> TRUE, created |-> TRUE,
          scheduled |-> FALSE]
    ELSE [attempts |-> count + 1, attempted |-> TRUE, created |-> FALSE,
          scheduled |-> TRUE]

\* the layers drawn after a successful createMap: drawCounties and
\* drawHexGrid (lines 1370-1372), or drawHexGridOnly (line 1403)
layersOf(branch) ==
    IF branch = "map" THEN <<"drawCounties", "drawHexGrid">>
    ELSE <<"drawHexGridOnly">>

InitRetry ==
    /\ retryBranch \in {"map", "grid"}
    /\ retryContainer \in {"null", "zero", "sized"}
    /\ RetryFresh
    /\ GenIdle
    /\ FillIdle
    /\ ViewIdle
    /\ LayoutIdle
    /\ MapIdle
    /\ CallIdle
    /\ StoreIdle
    /\ DebounceIdle
    /\ ChartIdle

\* tryCreateMap runs: called by initMap (retry = FALSE) or by its timeout
tryCreateRuns(retry, threw) ==
    \E r \in {tryCreateMap(attempts, retryContainer, threw)} :
        /\ attempts' = r.attempts
        /\ canvases' = IF r.created THEN canvases + 1 ELSE canvases
        /\ layersDrawn' = IF r.created THEN layersDrawn + 1 ELSE layersDrawn
        /\ retryPhase' = IF r.scheduled THEN "waiting" ELSE "stopped"
        /\ retryElapsed' = 0
        /\ lastTry' = [called |-> TRUE, retry |-> retry,
                       gap |-> retryElapsed, attempted |-> r.attempted,
                       created |-> r.created, scheduled |-> r.scheduled,
                       layers |-> IF r.created THEN layersOf(retryBranch)
                                  ELSE <<>>]
        /\ UNCHANGED <<retryBranch, retryContainer, retryLayouts>>
        /\ UNCHANGED <<genVars, fillVars, viewVars, layoutVars, mapVars,
                       callVars, storeVars, debounceVars, chartVars>>

\* tryCreateMap() of line 1379, tryCreateGrid() of line 1410
TryCreateFirst(threw) ==
    /\ retryBranch # "none"
    /\ retryPhase = "start"
    /\ tryCreateRuns(FALSE, threw)

\* the timeout set at line 1375 or 1406 runs, no earlier than its delay
RetryTimeoutRuns(threw) ==
    /\ retryPhase = "waiting"
    /\ retryElapsed >= retryDelay
    /\ tryCreateRuns(TRUE, threw)

\* the time passes while the timeout is pending
RetryTimePasses(ms) ==
    /\ retryPhase = "waiting"
    /\ retryElapsed + ms <= MaxLate * retryDelay
    /\ retryElapsed' = retryElapsed + ms
    /\ UNCHANGED <<retryBranch, retryPhase, retryContainer, retryLayouts,
                   attempts, canvases, layersDrawn, lastTry>>
    /\ UNCHANGED <<genVars, fillVars, viewVars, layoutVars, mapVars,
                   callVars, storeVars, debounceVars, chartVars>>

\* the container is laid out or loses its size
RetryContainerResized(size) ==
    /\ retryBranch # "none"
    /\ retryContainer \in {"zero", "sized"}
    /\ retryContainer # size
    /\ retryLayouts < MaxRetryLayouts
    /\ retryLayouts' = retryLayouts + 1
    /\ retryContainer' = size
    /\ UNCHANGED <<retryBranch, retryPhase, attempts, retryElapsed, canvases,
                   layersDrawn, lastTry>>
    /\ UNCHANGED <<genVars, fillVars, viewVars, layoutVars, mapVars,
                   callVars, storeVars, debounceVars, chartVars>>

\* the component is unmounted: mapContainer.value becomes null; onUnmounted
\* (lines 1438-1463) clears resizeTimer only, not the timeout of the retry
RetryUnmount ==
    /\ retryContainer \in {"zero", "sized"}
    /\ retryContainer' = "null"
    /\ UNCHANGED <<retryBranch, retryPhase, retryLayouts, attempts,
                   retryElapsed, canvases, layersDrawn, lastTry>>
    /\ UNCHANGED <<genVars, fillVars, viewVars, layoutVars, mapVars,
                   callVars, storeVars, debounceVars, chartVars>>

NextRetry ==
    \/ \E threw \in BOOLEAN : TryCreateFirst(threw)
    \/ \E threw \in BOOLEAN : RetryTimeoutRuns(threw)
    \/ \E ms \in RetrySteps : RetryTimePasses(ms)
    \/ \E size \in {"zero", "sized"} : RetryContainerResized(size)
    \/ RetryUnmount

SpecRetry == InitRetry /\ [][NextRetry]_vars

\* the timeout that is set runs, and the time passes while it is pending
FairSpecRetry ==
    /\ SpecRetry
    /\ WF_vars(\E threw \in BOOLEAN : TryCreateFirst(threw))
    /\ WF_vars(\E threw \in BOOLEAN : RetryTimeoutRuns(threw))
    /\ WF_vars(\E ms \in RetrySteps : RetryTimePasses(ms))

\* at most maxAttempts attempts, a retry no earlier than retryDelay after
\* the attempt before, no retry after a success, and the layers drawn once
\* per success
retriesBounded ==
    /\ attempts <= maxAttempts
    /\ canvases <= 1
    /\ layersDrawn = canvases
    /\ canvases = 1 => retryPhase = "stopped"
    /\ (lastTry.called /\ lastTry.retry) => lastTry.gap >= retryDelay
    /\ (lastTry.called /\ lastTry.created) => ~lastTry.scheduled

\* once stopped, the run does nothing more
stoppedForGood ==
    retryPhase = "stopped" =>
        /\ retryPhase' = "stopped"
        /\ attempts' = attempts
        /\ canvases' = canvases
        /\ layersDrawn' = layersDrawn

\* after the 20th failed attempt no timeout is pending
noRetryAfterLastAttempt == attempts = maxAttempts => retryPhase = "stopped"

\* the timeout set by the 20th failed attempt attempts nothing and sets no
\* timeout
lastTimeoutOnlyStops ==
    (/\ retryPhase = "waiting"
     /\ attempts = maxAttempts
     /\ attempts' # attempts \/ retryPhase' # retryPhase) =>
            /\ retryPhase' = "stopped"
            /\ attempts' = attempts
            /\ canvases' = canvases
            /\ ~lastTry'.attempted

\* C24 as claimed: at most 20 attempts 100 ms apart, the retries stop at
\* the first successful createMap, after which the layers are drawn exactly
\* once, after the 20th failed attempt no further retry is scheduled, and
\* every initMap run eventually stops retrying.
C24_NoRetryAfterTwentieth ==
    /\ [](retriesBounded /\ noRetryAfterLastAttempt)
    /\ [][stoppedForGood]_vars
    /\ <>(retryPhase = "stopped")

\* C24 as amended: at most 20 attempts 100 ms apart, the retries stop at
\* the first successful createMap, after which the layers are drawn exactly
\* once; the 20th failed attempt sets one more timeout, whose run of
\* tryCreate attempts nothing and sets no timeout; and every initMap run
\* eventually stops retrying.
C24_RetriesEnd ==
    /\ []retriesBounded
    /\ [][stoppedForGood /\ lastTimeoutOnlyStops]_vars
    /\ <>(retryPhase = "stopped")

\* the 20th attempt has failed and the timeout it set has run
C24_Witness ==
    /\ attempts = maxAttempts
    /\ retryPhase = "stopped"
    /\ canvases = 0
    /\ lastTry.called
    /\ lastTry.retry
    /\ ~lastTry.attempted

\* no initMap or toggleDisplayMode call is in progress: none is queued by
\* nextTick or by the resize timer, none awaits a fetch or a retry timer
noMapCallInProgress ==
    /\ ~mapTickPending
    /\ mapResizeTimer # "pending"
    /\ mapTasks = <<>>
    /\ retryTimers = <<>>

\* C25: in the map component, whenever no toggleDisplayMode or initMap call
\* is in progress the drawn canvas matches displayMode: a map projection
\* exists if and only if displayMode is 'map', and gridLayoutConfig is
\* non-null only if displayMode is 'grid'.
C25_CanvasMatchesMode ==
    (mapPhase = "mounted" /\ noMapCallInProgress /\ mapSvg # 0) =>
        /\ projection <=> displayMode = "map"
        /\ gridLayoutConfig # Null => displayMode = "grid"

(***************************************************************************)
(* BarView2.vue: the lists of drawBarChart (lines 107-122) and its         *)
(* interleaving loop (lines 186-315).  loadCandidateData (lines 49-79) is  *)
(* the code of the circle view's.  A row of the chart is the candidate     *)
(* drawn on it, or empty.                                                  *)
(***************************************************************************)

MaxBarCandidates == 4
MaxBarVotes == 1

\* slice(0, 39), slice(0, 38) and slice(0, 2) of lines 108, 111 and 113
kmtSlice == 39
dppSlice == 38
indSlice == 2

\* candidates.filter((c) => c.partyId === id).slice(0, count)
partySlice(candidates, id, count) ==
    LET own == SelectSeq(candidates, LAMBDA c : c.partyId = id)
    IN  SubSeq(own, 1, IF Len(own) < count THEN Len(own) ELSE count)

byVotesAscending(a, b) == F64Sub(a.votes, b.votes)
byVotesDescending(a, b) == F64Sub(b.votes, a.votes)

kmtCandidates(candidates) == partySlice(candidates, "KMT", kmtSlice)

\* line 112: sorted from the fewest votes to the most; the arrays the sort
\* may leave
dppCandidates(candidates) ==
    ArraySort(partySlice(candidates, "DPP", dppSlice), byVotesAscending)

indCandidates(candidates) == partySlice(candidates, "IND", indSlice)

\* lines 119-122: the two parties together, by votes descending; the arrays
\* the sort may leave
leftSideCandidates(candidates) ==
    ArraySort(kmtCandidates(candidates) \o indCandidates(candidates),
              byVotesDescending)

EmptyRow == [side |-> "none"]

barRowsLeftOnAnyRow(left, dpp, leftIndex, dppIndex, rowIndex) ==
    [k \in 1..(Len(left) + Len(dpp)) |->
        IF k <= Len(left) THEN [side |-> "left", candidate |-> left[k]]
        ELSE [side |-> "dpp", candidate |-> dpp[k - Len(left)]]]

\* the while loop of lines 193-315, from the values its variables have to
\* its end: the rows it goes through, from row rowIndex on
RECURSIVE barRows(_, _, _, _, _)
barRows(left, dpp, leftIndex, dppIndex, rowIndex) ==
    IF ~(leftIndex < Len(left) \/ dppIndex < Len(dpp))
    THEN <<>>
    ELSE LET isOddRow == rowIndex % 2 = 1
         IN  IF isOddRow /\ leftIndex < Len(left)
             THEN <<[side |-> "left", candidate |-> left[leftIndex + 1]]>>
                  \o barRows(left, dpp, leftIndex + 1, dppIndex, rowIndex + 1)
             ELSE IF ~isOddRow /\ dppIndex < Len(dpp)
             THEN <<[side |-> "dpp", candidate |-> dpp[dppIndex + 1]]>>
                  \o barRows(left, dpp, leftIndex, dppIndex + 1, rowIndex + 1)
             ELSE <<EmptyRow>>
                  \o barRows(left, dpp, leftIndex, dppIndex, rowIndex + 1)

\* the rows of the CSV file: the party name of 推薦之政黨 and the votes, which
\* the file holds as a decimal numeral
BarParties == {"GuoMinDang", "MinJinDang", "Wu"}
BarFiles ==
    UNION { [1..n -> BarParties \X (0..MaxBarVotes)] :
              n \in 0..MaxBarCandidates }
BarInputs == [fn : {"drawBarChart"}, file : BarFiles]

csvRows(file) ==
    Array([k \in 1..Len(file) |->
              [name |-> k, party |-> file[k][1],
               votes |-> numeralOf(file[k][2])]],
          Len(file))

InitBars ==
    /\ callArgs \in BarInputs
    /\ callResult = [done |-> FALSE]
    /\ GenIdle
    /\ FillIdle
    /\ ViewIdle
    /\ LayoutIdle
    /\ MapIdle
    /\ StoreIdle
    /\ DebounceIdle
    /\ ChartIdle
    /\ RetryIdle

\* drawBarChart of BarView2 with the file loaded: the lists and the rows
DrawBars ==
    /\ callArgs.fn = "drawBarChart"
    /\ ~callResult.done
    /\ \E candidates \in loadCandidateData(csvRows(callArgs.file)) :
       \E left \in leftSideCandidates(candidates) :
       \E dpp \in dppCandidates(candidates) :
           callResult' = [done |-> TRUE, left |-> left, dpp |-> dpp,
                          rows |-> barRows(left, dpp, 0, 0, 1)]
    /\ UNCHANGED <<callArgs, genVars, fillVars, viewVars, layoutVars, mapVars,
                   storeVars, debounceVars, chartVars, retryVars>>

NextBars == DrawBars

SpecBars == InitBars /\ [][NextBars]_vars

\* the candidates drawn on the rows of one side, from the top
drawnOn(rows, side) ==
    LET own == SelectSeq(rows, LAMBDA r : r.side = side)
    IN  Array([k \in 1..Len(own) |-> own[k].candidate], Len(own))

\* the rows (numbered from 1) on which candidates of the party are drawn
rowsOfParty(rows, id) ==
    { k \in 1..Len(rows) :
        rows[k].side # "none" /\ rows[k].candidate.partyId = id }

\* C26: the interleaving loop of BarView2 terminates for every pair of list
\* lengths and draws every left-side (KMT and IND) candidate and every DPP
\* candidate exactly once, left-side candidates only on odd rows and DPP
\* candidates only on even rows, each list in its own sorted order; a row
\* whose side is exhausted stays empty.  The loop ends with the row of the
\* last candidate.
C26_InterleavedOnce ==
    callResult.done =>
        LET rows == callResult.rows
            left == callResult.left
            dpp == callResult.dpp
        IN  /\ drawnOn(rows, "left") = left
            /\ drawnOn(rows, "dpp") = dpp
            /\ \A k \in 1..Len(rows) :
                   /\ rows[k].side = "left" => k % 2 = 1
                   /\ rows[k].side = "dpp" => k % 2 = 0
                   /\ rows[k].side = "none" <=>
                          IF k % 2 = 1 THEN (k + 1) \div 2 > Len(left)
                          ELSE k \div 2 > Len(dpp)
            /\ Len(rows) > 0 => rows[Len(rows)].side # "none"
            /\ \A i, j \in 1..Len(left) :
                   i < j => notBelow(left[i].votes, left[j].votes)
            /\ \A i, j \in 1..Len(dpp) :
                   i < j => notBelow(dpp[j].votes, dpp[i].votes)

\* the left side has three candidates and DPP one: rows 4 and 6 stay empty
C26_Witness ==
    /\ callResult.done
    /\ Len(callResult.left) = 3
    /\ Len(callResult.dpp) = 1
    /\ Len(callResult.rows) = 5
    /\ callResult.rows[4].side = "none"

\* C27: in BarView2 every IND candidate's bar is drawn on a row below the
\* rows of all KMT candidates' bars.
C27_IndependentsAtBottom ==
    callResult.done =>
        \A i \in rowsOfParty(callResult.rows, "IND") :
            \A k \in rowsOfParty(callResult.rows, "KMT") : k < i

====
